---------------------------- MODULE Spec2Model ----------------------------
(***************************************************************************)
(* Model of the PR staleness checker (calcom PR triage reports).           *)
(*                                                                         *)
(* The scripts share one library (common.ts: rule-file parsing, pattern    *)
(* compilation, ownership resolution, business-day arithmetic, metrics)    *)
(* and differ in their classifier and in how they fan out the per-PR       *)
(* fetches.  Each part of the program is given its own specification over  *)
(* the variables it uses; the variables of the other parts stay at their   *)
(* initial value.                                                          *)
(*                                                                         *)
(* Conventions.  An instant is a natural number of ticks, TicksPerDay      *)
(* ticks to the calendar day, day 0 being 1970-01-01 (a Thursday).  A      *)
(* string whose characters matter (a pattern, a path) is a sequence of     *)
(* one-character strings.  A function that can throw returns a record with *)
(* an ok field.  Display labels are written without their emoji.           *)
(***************************************************************************)
EXTENDS Integers, Sequences, FiniteSets, TLC

VARIABLES
    startDate,       \* getBusinessDays: first argument
    endDate,         \* getBusinessDays: second argument
    businessDays,    \* getBusinessDays: returned count, NotComputed before the call
    CODEOWNER_RULES, \* the shared rule cache (common.ts: let CODEOWNER_RULES)
    changedFiles,    \* getCodeOwnerTeams: the changed files passed in
    codeOwnerTeams,  \* getCodeOwnerTeams: what the call returned or threw
    created_at,      \* calculateMetrics: pr.created_at
    now,             \* calculateMetrics: new Date() at the start of the call
    comments,        \* calculateMetrics: what fetchPRComments resolved to
    reviews,         \* calculateMetrics: what fetchPRReviews resolved to
    metrics,         \* calculateMetrics: the PRMetrics returned, NoMetrics before
    pr,              \* the classifiers: the pull request passed to getPRStatus
    status,          \* getPRStatus of the organisation report: returned or thrown
    teamStatus,      \* getPRStatus of the team report: returned
    statusAgain,     \* getPRStatus of the organisation report, called again
    requestedStatus, \* getPRStatus of the earlier report (whole.mjs): returned
    heap,            \* the objects of the run, by address
    heapBefore,      \* the objects as they were before the first call
    failedFetch,     \* the GitHub request that answers with an error, if any
    pullRequests,    \* printPullRequests (team.ts): the list passed in
    batchStart,      \* printPullRequests: the loop index i
    batchResults,    \* printPullRequests: the promises of the current batch
    prsWithMetrics,  \* printPullRequests: the results pushed so far
    batchPc,         \* printPullRequests: where the function stands
    orgMemberAndDevinPRs,  \* main (index.ts): the filtered organisation PRs
    approvedCommunityPRs,  \* main (index.ts): the approved community PRs
    orgPromises,     \* main: the enhancePRWithMetrics promises of the first join
    communityPromises, \* main: those of the second join
    orgPc,           \* main: where the function stands
    output,          \* what the report returned, NoOutput before
    patternArg,      \* parsePattern: the pattern passed in
    pathArg,         \* RegExp.test: the path passed in
    regexp,          \* parsePattern: the RegExp returned or the error thrown
    testResult,      \* RegExp.test: what the call returned
    codeowners,      \* parseCodeowners: the text of the CODEOWNERS file passed in
    parsedRules,     \* parseCodeowners: the rules returned
    meetsAttention,  \* meetsAttentionCriteria: what the call returned
    attentionStatus, \* getPRStatus of the attention report: returned
    runPc,           \* main of the attention report: where the run stands
    loaded,          \* initializeCodeowners: returned or the error thrown
    assignments,     \* how many times CODEOWNER_RULES was assigned in the run
    communityPRsWithCodeOwners,  \* fetchCommunityPRsForAttention: pushed so far
    orgMemberLogins, \* fetchOrgMembers: the logins it resolves to
    communityPRs,    \* fetchCommunityPRsBySearch: the pull requests it resolves to
    nextCommunityPR  \* fetchCommunityPRsForAttention: the place of the for loop

daysVars == <<startDate, endDate, businessDays>>
ownersVars == <<changedFiles, codeOwnerTeams>>
metricsVars == <<created_at, now, comments, reviews, metrics>>
classifyVars == <<pr, status, teamStatus, statusAgain, requestedStatus, heap, heapBefore>>
fetchVars == <<failedFetch>>
batchVars == <<pullRequests, batchStart, batchResults, prsWithMetrics, batchPc>>
orgVars == <<orgMemberAndDevinPRs, approvedCommunityPRs, orgPromises, communityPromises,
             orgPc>>
printVars == <<output>>
patternVars == <<patternArg, pathArg, regexp, testResult>>
parseVars == <<codeowners, parsedRules>>
attentionVars == <<meetsAttention, attentionStatus>>
runVars == <<runPc, loaded, assignments, communityPRsWithCodeOwners, orgMemberLogins,
             communityPRs, nextCommunityPR>>

vars == <<startDate, endDate, businessDays, CODEOWNER_RULES, changedFiles, codeOwnerTeams,
          created_at, now, comments, reviews, metrics, pr, status, teamStatus,
          statusAgain, requestedStatus, heap, heapBefore,
          failedFetch, pullRequests, batchStart, batchResults, prsWithMetrics, batchPc,
          orgMemberAndDevinPRs, approvedCommunityPRs, orgPromises, communityPromises,
          orgPc, output, patternArg, pathArg, regexp, testResult, codeowners,
          parsedRules,
          meetsAttention, attentionStatus,
          runPc, loaded, assignments, communityPRsWithCodeOwners, orgMemberLogins,
          communityPRs, nextCommunityPR>>

(***************************************************************************)
(* Bounds of the model.                                                    *)
(***************************************************************************)
TicksPerDay == 2
MaxDay == 9
MaxRules == 2
MaxReviews == 2
MaxTime == 2
MaxPatternLen == 4
MaxPathLen == 5
MaxTerminatorPathLen == 3
MaxLines == 3

\* The value of a result variable before the call returns.
NotComputed == 0 - 1
NotCalled == [ok |-> FALSE, teams |-> <<>>, error |-> "not called"]
NoMetrics == [age |-> NotComputed, staleness |-> NotComputed,
              isApproved |-> FALSE, hasChangesRequested |-> FALSE]
NoStatus == [priority |-> NotComputed, label |-> "none"]
NotClassified == [ok |-> FALSE, status |-> NoStatus, error |-> "not called"]
NoPR == [number |-> 0]
NoFailure == [number |-> 0, endpoint |-> "none"]
NoOutput == [ok |-> FALSE, error |-> "not returned", message |-> "", groups |-> <<>>]
NotCompiled == [ok |-> FALSE, re |-> <<>>, error |-> "not called"]
NotTested == [called |-> FALSE, value |-> FALSE]
NotParsed == [called |-> FALSE, rules |-> <<>>]
NotLoaded == [ok |-> FALSE, error |-> "not called"]

(***************************************************************************)
(* The variables of a part that a specification does not exercise.         *)
(***************************************************************************)
DaysIdle ==
    /\ startDate = 0
    /\ endDate = 0
    /\ businessDays = NotComputed

OwnersIdle ==
    /\ changedFiles = <<>>
    /\ codeOwnerTeams = NotCalled

MetricsIdle ==
    /\ created_at = 0
    /\ now = 0
    /\ comments = <<>>
    /\ reviews = <<>>
    /\ metrics = NoMetrics

ClassifyIdle ==
    /\ pr = NoPR
    /\ status = NotClassified
    /\ teamStatus = NotClassified
    /\ statusAgain = NotClassified
    /\ requestedStatus = NotClassified
    /\ heap = <<>>
    /\ heapBefore = <<>>

FetchIdle == failedFetch = NoFailure

BatchIdle ==
    /\ pullRequests = <<>>
    /\ batchStart = 0
    /\ batchResults = <<>>
    /\ prsWithMetrics = <<>>
    /\ batchPc = "idle"

OrgIdle ==
    /\ orgMemberAndDevinPRs = <<>>
    /\ approvedCommunityPRs = <<>>
    /\ orgPromises = <<>>
    /\ communityPromises = <<>>
    /\ orgPc = "idle"

PrintIdle == output = NoOutput

PatternIdle ==
    /\ patternArg = <<>>
    /\ pathArg = <<>>
    /\ regexp = NotCompiled
    /\ testResult = NotTested

ParseIdle ==
    /\ codeowners = <<>>
    /\ parsedRules = NotParsed

AttentionIdle ==
    /\ meetsAttention = NotTested
    /\ attentionStatus = NotClassified

RunIdle ==
    /\ runPc = "idle"
    /\ loaded = NotLoaded
    /\ assignments = 0
    /\ communityPRsWithCodeOwners = <<>>
    /\ orgMemberLogins = <<>>
    /\ communityPRs = <<>>
    /\ nextCommunityPR = 1

(***************************************************************************)
(* ActivityClock: getBusinessDays (common.ts).                             *)
(***************************************************************************)
Instants == 0 .. (MaxDay * TicksPerDay + TicksPerDay - 1)

\* Date.setHours(0, 0, 0, 0): the midnight that starts the instant's day.
setHoursMidnight(t) == (t \div TicksPerDay) * TicksPerDay

\* Date.getDay(): 0 = Sunday ... 6 = Saturday; day 0 is a Thursday.
getDay(t) == ((t \div TicksPerDay) + 4) % 7

\* Date.setDate(getDate() + 1): the same time on the next calendar day.
nextDate(t) == t + TicksPerDay

\* The while loop of getBusinessDays, from `current` with the count so far.
RECURSIVE businessDaysLoop(_, _, _)
businessDaysLoop(current, end, count) ==
    IF current <= end
    THEN businessDaysLoop(nextDate(current), end,
                          IF getDay(current) # 0 /\ getDay(current) # 6
                          THEN count + 1 ELSE count)
    ELSE count

\* A plausible slip: the end day left out of the range.
getBusinessDaysExclusive(start, end) ==
    businessDaysLoop(setHoursMidnight(start), setHoursMidnight(end) - 1, 0)

getBusinessDays(start, end) ==
    businessDaysLoop(setHoursMidnight(start), setHoursMidnight(end), 0)

(***************************************************************************)
(* The sequences over S of length at most n: the lists an input is drawn   *)
(* from.                                                                   *)
(***************************************************************************)
RECURSIVE SeqsUpTo(_, _)
SeqsUpTo(S, n) ==
    IF n = 0 THEN {<<>>}
    ELSE LET shorter == SeqsUpTo(S, n - 1)
         IN  shorter \cup {Append(q, x) : q \in {z \in shorter : Len(z) = n - 1}, x \in S}

(***************************************************************************)
(* Characters.  A string is a sequence of UTF-16 code units, as in        *)
(* JavaScript.  A code unit is written as the character itself where a     *)
(* TLA+ string can hold it ("a", "É", "\t") and by its name, "U+" and four *)
(* hexadecimal digits, where it cannot ("U+2028", "U+D801").               *)
(***************************************************************************)
\* The line terminators: the code units that `.` does not match.
LineTerminators == {"\n", "\r", "U+2028", "U+2029"}

\* The white space of \s and of String.prototype.trim: the WhiteSpace and
\* LineTerminator code units.
WhiteSpace ==
    {" ", "\t", "\n", "", "\f", "\r", " ", " ", "U+2000", "U+2001", "U+2002", "U+2003",
     "U+2004", "U+2005", "U+2006", "U+2007", "U+2008", "U+2009", "U+200A", "U+2028", "U+2029",
     "U+202F", "U+205F", "U+3000", "﻿"}

\* String.prototype.toLowerCase on the letters A-Z.
LowerCaseOf ==
    [A |-> "a", B |-> "b", C |-> "c", D |-> "d", E |-> "e", F |-> "f", G |-> "g",
     H |-> "h", I |-> "i", J |-> "j", K |-> "k", L |-> "l", M |-> "m", N |-> "n",
     O |-> "o", P |-> "p", Q |-> "q", R |-> "r", S |-> "s", T |-> "t", U |-> "u",
     V |-> "v", W |-> "w", X |-> "x", Y |-> "y", Z |-> "z"]

\* The other printable characters of ASCII: toLowerCase keeps them.
PlainAscii ==
    {" ", "!", "\"", "#", "$", "%", "&", "'", "(", ")", "*", "+", ",", "-", ".", "/", "0", "1",
     "2", "3", "4", "5", "6", "7", "8", "9", ":", ";", "<", "=", ">", "?", "@", "[", "\\", "]",
     "^", "_", "U+0060", "a", "b", "c", "d", "e", "f", "g", "h", "i", "j", "k", "l", "m", "n",
     "o", "p", "q", "r", "s", "t", "u", "v", "w", "x", "y", "z", "{", "|", "}", "~"}

\* The letters outside A-Z with a lower-case form of one code unit, each with
\* that form (Unicode 17).
LowerCasePairs ==
    {<<"À", "à">>, <<"Á", "á">>, <<"Â", "â">>, <<"Ã", "ã">>, <<"Ä", "ä">>, <<"Å", "å">>,
     <<"Æ", "æ">>, <<"Ç", "ç">>, <<"È", "è">>, <<"É", "é">>, <<"Ê", "ê">>, <<"Ë", "ë">>,
     <<"Ì", "ì">>, <<"Í", "í">>, <<"Î", "î">>, <<"Ï", "ï">>, <<"Ð", "ð">>, <<"Ñ", "ñ">>,
     <<"Ò", "ò">>, <<"Ó", "ó">>, <<"Ô", "ô">>, <<"Õ", "õ">>, <<"Ö", "ö">>, <<"Ø", "ø">>,
     <<"Ù", "ù">>, <<"Ú", "ú">>, <<"Û", "û">>, <<"Ü", "ü">>, <<"Ý", "ý">>, <<"Þ", "þ">>,
     <<"U+0100", "U+0101">>, <<"U+0102", "U+0103">>, <<"U+0104", "U+0105">>,
     <<"U+0106", "U+0107">>, <<"U+0108", "U+0109">>, <<"U+010A", "U+010B">>,
     <<"U+010C", "U+010D">>, <<"U+010E", "U+010F">>, <<"U+0110", "U+0111">>,
     <<"U+0112", "U+0113">>, <<"U+0114", "U+0115">>, <<"U+0116", "U+0117">>,
     <<"U+0118", "U+0119">>, <<"U+011A", "U+011B">>, <<"U+011C", "U+011D">>,
     <<"U+011E", "U+011F">>, <<"U+0120", "U+0121">>, <<"U+0122", "U+0123">>,
     <<"U+0124", "U+0125">>, <<"U+0126", "U+0127">>, <<"U+0128", "U+0129">>,
     <<"U+012A", "U+012B">>, <<"U+012C", "U+012D">>, <<"U+012E", "U+012F">>,
     <<"U+0132", "U+0133">>, <<"U+0134", "U+0135">>, <<"U+0136", "U+0137">>,
     <<"U+0139", "U+013A">>, <<"U+013B", "U+013C">>, <<"U+013D", "U+013E">>,
     <<"U+013F", "U+0140">>, <<"U+0141", "U+0142">>, <<"U+0143", "U+0144">>,
     <<"U+0145", "U+0146">>, <<"U+0147", "U+0148">>, <<"U+014A", "U+014B">>,
     <<"U+014C", "U+014D">>, <<"U+014E", "U+014F">>, <<"U+0150", "U+0151">>,
     <<"U+0152", "U+0153">>, <<"U+0154", "U+0155">>, <<"U+0156", "U+0157">>,
     <<"U+0158", "U+0159">>, <<"U+015A", "U+015B">>, <<"U+015C", "U+015D">>,
     <<"U+015E", "U+015F">>, <<"U+0160", "U+0161">>, <<"U+0162", "U+0163">>,
     <<"U+0164", "U+0165">>, <<"U+0166", "U+0167">>, <<"U+0168", "U+0169">>,
     <<"U+016A", "U+016B">>, <<"U+016C", "U+016D">>, <<"U+016E", "U+016F">>,
     <<"U+0170", "U+0171">>, <<"U+0172", "U+0173">>, <<"U+0174", "U+0175">>,
     <<"U+0176", "U+0177">>, <<"U+0178", "ÿ">>, <<"U+0179", "U+017A">>, <<"U+017B", "U+017C">>,
     <<"U+017D", "U+017E">>, <<"Ɓ", "U+0253">>, <<"Ƃ", "ƃ">>, <<"Ƅ", "ƅ">>, <<"Ɔ", "U+0254">>,
     <<"Ƈ", "ƈ">>, <<"Ɖ", "U+0256">>, <<"Ɗ", "U+0257">>, <<"Ƌ", "ƌ">>, <<"Ǝ", "ǝ">>,
     <<"Ə", "U+0259">>, <<"Ɛ", "U+025B">>, <<"Ƒ", "ƒ">>, <<"Ɠ", "U+0260">>, <<"Ɣ", "U+0263">>,
     <<"Ɩ", "U+0269">>, <<"Ɨ", "U+0268">>, <<"Ƙ", "ƙ">>, <<"Ɯ", "U+026F">>, <<"Ɲ", "U+0272">>,
     <<"Ɵ", "U+0275">>, <<"Ơ", "ơ">>, <<"Ƣ", "ƣ">>, <<"Ƥ", "ƥ">>, <<"Ʀ", "ʀ">>, <<"Ƨ", "ƨ">>,
     <<"Ʃ", "ʃ">>, <<"Ƭ", "ƭ">>, <<"Ʈ", "ʈ">>, <<"Ư", "ư">>, <<"Ʊ", "ʊ">>, <<"Ʋ", "ʋ">>,
     <<"Ƴ", "ƴ">>, <<"Ƶ", "ƶ">>, <<"Ʒ", "ʒ">>, <<"Ƹ", "ƹ">>, <<"Ƽ", "ƽ">>, <<"Ǆ", "ǆ">>,
     <<"ǅ", "ǆ">>, <<"Ǉ", "ǉ">>, <<"ǈ", "ǉ">>, <<"Ǌ", "ǌ">>, <<"ǋ", "ǌ">>, <<"Ǎ", "ǎ">>,
     <<"Ǐ", "ǐ">>, <<"Ǒ", "ǒ">>, <<"Ǔ", "ǔ">>, <<"Ǖ", "ǖ">>, <<"Ǘ", "ǘ">>, <<"Ǚ", "ǚ">>,
     <<"Ǜ", "ǜ">>, <<"Ǟ", "ǟ">>, <<"Ǡ", "ǡ">>, <<"Ǣ", "ǣ">>, <<"Ǥ", "ǥ">>, <<"Ǧ", "ǧ">>,
     <<"Ǩ", "ǩ">>, <<"Ǫ", "ǫ">>, <<"Ǭ", "ǭ">>, <<"Ǯ", "ǯ">>, <<"Ǳ", "ǳ">>, <<"ǲ", "ǳ">>,
     <<"Ǵ", "ǵ">>, <<"Ƕ", "ƕ">>, <<"Ƿ", "ƿ">>, <<"Ǹ", "ǹ">>, <<"Ǻ", "ǻ">>, <<"Ǽ", "ǽ">>,
     <<"Ǿ", "ǿ">>, <<"U+0200", "U+0201">>, <<"U+0202", "U+0203">>, <<"U+0204", "U+0205">>,
     <<"U+0206", "U+0207">>, <<"U+0208", "U+0209">>, <<"U+020A", "U+020B">>,
     <<"U+020C", "U+020D">>, <<"U+020E", "U+020F">>, <<"U+0210", "U+0211">>,
     <<"U+0212", "U+0213">>, <<"U+0214", "U+0215">>, <<"U+0216", "U+0217">>,
     <<"U+0218", "U+0219">>, <<"U+021A", "U+021B">>, <<"U+021C", "U+021D">>,
     <<"U+021E", "U+021F">>, <<"U+0220", "ƞ">>, <<"U+0222", "U+0223">>, <<"U+0224", "U+0225">>,
     <<"U+0226", "U+0227">>, <<"U+0228", "U+0229">>, <<"U+022A", "U+022B">>,
     <<"U+022C", "U+022D">>, <<"U+022E", "U+022F">>, <<"U+0230", "U+0231">>,
     <<"U+0232", "U+0233">>, <<"U+023A", "U+2C65">>, <<"U+023B", "U+023C">>, <<"U+023D", "ƚ">>,
     <<"U+023E", "U+2C66">>, <<"U+0241", "U+0242">>, <<"U+0243", "ƀ">>, <<"U+0244", "ʉ">>,
     <<"U+0245", "ʌ">>, <<"U+0246", "U+0247">>, <<"U+0248", "U+0249">>, <<"U+024A", "U+024B">>,
     <<"U+024C", "U+024D">>, <<"U+024E", "U+024F">>, <<"U+0370", "U+0371">>,
     <<"U+0372", "U+0373">>, <<"U+0376", "U+0377">>, <<"U+037F", "ϳ">>, <<"Ά", "ά">>,
     <<"Έ", "έ">>, <<"Ή", "ή">>, <<"Ί", "ί">>, <<"Ό", "ό">>, <<"Ύ", "ύ">>, <<"Ώ", "ώ">>,
     <<"Α", "α">>, <<"Β", "β">>, <<"Γ", "γ">>, <<"Δ", "δ">>, <<"Ε", "ε">>, <<"Ζ", "ζ">>,
     <<"Η", "η">>, <<"Θ", "θ">>, <<"Ι", "ι">>, <<"Κ", "κ">>, <<"Λ", "λ">>, <<"Μ", "μ">>,
     <<"Ν", "ν">>, <<"Ξ", "ξ">>, <<"Ο", "ο">>, <<"Π", "π">>, <<"Ρ", "ρ">>, <<"Σ", "σ">>,
     <<"Τ", "τ">>, <<"Υ", "υ">>, <<"Φ", "φ">>, <<"Χ", "χ">>, <<"Ψ", "ψ">>, <<"Ω", "ω">>,
     <<"Ϊ", "ϊ">>, <<"Ϋ", "ϋ">>, <<"Ϗ", "ϗ">>, <<"Ϙ", "ϙ">>, <<"Ϛ", "ϛ">>, <<"Ϝ", "ϝ">>,
     <<"Ϟ", "ϟ">>, <<"Ϡ", "ϡ">>, <<"Ϣ", "ϣ">>, <<"Ϥ", "ϥ">>, <<"Ϧ", "ϧ">>, <<"Ϩ", "ϩ">>,
     <<"Ϫ", "ϫ">>, <<"Ϭ", "ϭ">>, <<"Ϯ", "ϯ">>, <<"ϴ", "θ">>, <<"Ϸ", "ϸ">>, <<"Ϲ", "ϲ">>,
     <<"Ϻ", "ϻ">>, <<"Ͻ", "U+037B">>, <<"Ͼ", "U+037C">>, <<"Ͽ", "U+037D">>,
     <<"U+0400", "U+0450">>, <<"U+0401", "U+0451">>, <<"U+0402", "U+0452">>,
     <<"U+0403", "U+0453">>, <<"U+0404", "U+0454">>, <<"U+0405", "U+0455">>,
     <<"U+0406", "U+0456">>, <<"U+0407", "U+0457">>, <<"U+0408", "U+0458">>,
     <<"U+0409", "U+0459">>, <<"U+040A", "U+045A">>, <<"U+040B", "U+045B">>,
     <<"U+040C", "U+045C">>, <<"U+040D", "U+045D">>, <<"U+040E", "U+045E">>,
     <<"U+040F", "U+045F">>, <<"U+0410", "U+0430">>, <<"U+0411", "U+0431">>,
     <<"U+0412", "U+0432">>, <<"U+0413", "U+0433">>, <<"U+0414", "U+0434">>,
     <<"U+0415", "U+0435">>, <<"U+0416", "U+0436">>, <<"U+0417", "U+0437">>,
     <<"U+0418", "U+0438">>, <<"U+0419", "U+0439">>, <<"U+041A", "U+043A">>,
     <<"U+041B", "U+043B">>, <<"U+041C", "U+043C">>, <<"U+041D", "U+043D">>,
     <<"U+041E", "U+043E">>, <<"U+041F", "U+043F">>, <<"U+0420", "U+0440">>,
     <<"U+0421", "U+0441">>, <<"U+0422", "U+0442">>, <<"U+0423", "U+0443">>,
     <<"U+0424", "U+0444">>, <<"U+0425", "U+0445">>, <<"U+0426", "U+0446">>,
     <<"U+0427", "U+0447">>, <<"U+0428", "U+0448">>, <<"U+0429", "U+0449">>,
     <<"U+042A", "U+044A">>, <<"U+042B", "U+044B">>, <<"U+042C", "U+044C">>,
     <<"U+042D", "U+044D">>, <<"U+042E", "U+044E">>, <<"U+042F", "U+044F">>,
     <<"U+0460", "U+0461">>, <<"U+0462", "U+0463">>, <<"U+0464", "U+0465">>,
     <<"U+0466", "U+0467">>, <<"U+0468", "U+0469">>, <<"U+046A", "U+046B">>,
     <<"U+046C", "U+046D">>, <<"U+046E", "U+046F">>, <<"U+0470", "U+0471">>,
     <<"U+0472", "U+0473">>, <<"U+0474", "U+0475">>, <<"U+0476", "U+0477">>,
     <<"U+0478", "U+0479">>, <<"U+047A", "U+047B">>, <<"U+047C", "U+047D">>,
     <<"U+047E", "U+047F">>, <<"Ҁ", "ҁ">>, <<"Ҋ", "ҋ">>, <<"Ҍ", "ҍ">>, <<"Ҏ", "ҏ">>,
     <<"Ґ", "ґ">>, <<"Ғ", "ғ">>, <<"Ҕ", "ҕ">>, <<"Җ", "җ">>, <<"Ҙ", "ҙ">>, <<"Қ", "қ">>,
     <<"Ҝ", "ҝ">>, <<"Ҟ", "ҟ">>, <<"Ҡ", "ҡ">>, <<"Ң", "ң">>, <<"Ҥ", "ҥ">>, <<"Ҧ", "ҧ">>,
     <<"Ҩ", "ҩ">>, <<"Ҫ", "ҫ">>, <<"Ҭ", "ҭ">>, <<"Ү", "ү">>, <<"Ұ", "ұ">>, <<"Ҳ", "ҳ">>,
     <<"Ҵ", "ҵ">>, <<"Ҷ", "ҷ">>, <<"Ҹ", "ҹ">>, <<"Һ", "һ">>, <<"Ҽ", "ҽ">>, <<"Ҿ", "ҿ">>,
     <<"Ӏ", "ӏ">>, <<"Ӂ", "ӂ">>, <<"Ӄ", "ӄ">>, <<"Ӆ", "ӆ">>, <<"Ӈ", "ӈ">>, <<"Ӊ", "ӊ">>,
     <<"Ӌ", "ӌ">>, <<"Ӎ", "ӎ">>, <<"Ӑ", "ӑ">>, <<"Ӓ", "ӓ">>, <<"Ӕ", "ӕ">>, <<"Ӗ", "ӗ">>,
     <<"Ә", "ә">>, <<"Ӛ", "ӛ">>, <<"Ӝ", "ӝ">>, <<"Ӟ", "ӟ">>, <<"Ӡ", "ӡ">>, <<"Ӣ", "ӣ">>,
     <<"Ӥ", "ӥ">>, <<"Ӧ", "ӧ">>, <<"Ө", "ө">>, <<"Ӫ", "ӫ">>, <<"Ӭ", "ӭ">>, <<"Ӯ", "ӯ">>,
     <<"Ӱ", "ӱ">>, <<"Ӳ", "ӳ">>, <<"Ӵ", "ӵ">>, <<"Ӷ", "ӷ">>, <<"Ӹ", "ӹ">>, <<"Ӻ", "ӻ">>,
     <<"Ӽ", "ӽ">>, <<"Ӿ", "ӿ">>, <<"U+0500", "U+0501">>, <<"U+0502", "U+0503">>,
     <<"U+0504", "U+0505">>, <<"U+0506", "U+0507">>, <<"U+0508", "U+0509">>,
     <<"U+050A", "U+050B">>, <<"U+050C", "U+050D">>, <<"U+050E", "U+050F">>,
     <<"U+0510", "U+0511">>, <<"U+0512", "U+0513">>, <<"U+0514", "U+0515">>,
     <<"U+0516", "U+0517">>, <<"U+0518", "U+0519">>, <<"U+051A", "U+051B">>,
     <<"U+051C", "U+051D">>, <<"U+051E", "U+051F">>, <<"U+0520", "U+0521">>,
     <<"U+0522", "U+0523">>, <<"U+0524", "U+0525">>, <<"U+0526", "U+0527">>,
     <<"U+0528", "U+0529">>, <<"U+052A", "U+052B">>, <<"U+052C", "U+052D">>,
     <<"U+052E", "U+052F">>, <<"U+0531", "U+0561">>, <<"U+0532", "U+0562">>,
     <<"U+0533", "U+0563">>, <<"U+0534", "U+0564">>, <<"U+0535", "U+0565">>,
     <<"U+0536", "U+0566">>, <<"U+0537", "U+0567">>, <<"U+0538", "U+0568">>,
     <<"U+0539", "U+0569">>, <<"U+053A", "U+056A">>, <<"U+053B", "U+056B">>,
     <<"U+053C", "U+056C">>, <<"U+053D", "U+056D">>, <<"U+053E", "U+056E">>,
     <<"U+053F", "U+056F">>, <<"U+0540", "U+0570">>, <<"U+0541", "U+0571">>,
     <<"U+0542", "U+0572">>, <<"U+0543", "U+0573">>, <<"U+0544", "U+0574">>,
     <<"U+0545", "U+0575">>, <<"U+0546", "U+0576">>, <<"U+0547", "U+0577">>,
     <<"U+0548", "U+0578">>, <<"U+0549", "U+0579">>, <<"U+054A", "U+057A">>,
     <<"U+054B", "U+057B">>, <<"U+054C", "U+057C">>, <<"U+054D", "U+057D">>,
     <<"U+054E", "U+057E">>, <<"U+054F", "U+057F">>, <<"U+0550", "ր">>, <<"U+0551", "ց">>,
     <<"U+0552", "ւ">>, <<"U+0553", "փ">>, <<"U+0554", "ք">>, <<"U+0555", "օ">>,
     <<"U+0556", "ֆ">>, <<"Ⴀ", "U+2D00">>, <<"Ⴁ", "U+2D01">>, <<"Ⴂ", "U+2D02">>,
     <<"Ⴃ", "U+2D03">>, <<"Ⴄ", "U+2D04">>, <<"Ⴅ", "U+2D05">>, <<"Ⴆ", "U+2D06">>,
     <<"Ⴇ", "U+2D07">>, <<"Ⴈ", "U+2D08">>, <<"Ⴉ", "U+2D09">>, <<"Ⴊ", "U+2D0A">>,
     <<"Ⴋ", "U+2D0B">>, <<"Ⴌ", "U+2D0C">>, <<"Ⴍ", "U+2D0D">>, <<"Ⴎ", "U+2D0E">>,
     <<"Ⴏ", "U+2D0F">>, <<"Ⴐ", "U+2D10">>, <<"Ⴑ", "U+2D11">>, <<"Ⴒ", "U+2D12">>,
     <<"Ⴓ", "U+2D13">>, <<"Ⴔ", "U+2D14">>, <<"Ⴕ", "U+2D15">>, <<"Ⴖ", "U+2D16">>,
     <<"Ⴗ", "U+2D17">>, <<"Ⴘ", "U+2D18">>, <<"Ⴙ", "U+2D19">>, <<"Ⴚ", "U+2D1A">>,
     <<"Ⴛ", "U+2D1B">>, <<"Ⴜ", "U+2D1C">>, <<"Ⴝ", "U+2D1D">>, <<"Ⴞ", "U+2D1E">>,
     <<"Ⴟ", "U+2D1F">>, <<"Ⴠ", "U+2D20">>, <<"Ⴡ", "U+2D21">>, <<"Ⴢ", "U+2D22">>,
     <<"Ⴣ", "U+2D23">>, <<"Ⴤ", "U+2D24">>, <<"Ⴥ", "U+2D25">>, <<"Ⴧ", "U+2D27">>,
     <<"Ⴭ", "U+2D2D">>, <<"Ꭰ", "U+AB70">>, <<"Ꭱ", "U+AB71">>, <<"Ꭲ", "U+AB72">>,
     <<"Ꭳ", "U+AB73">>, <<"Ꭴ", "U+AB74">>, <<"Ꭵ", "U+AB75">>, <<"Ꭶ", "U+AB76">>,
     <<"Ꭷ", "U+AB77">>, <<"Ꭸ", "U+AB78">>, <<"Ꭹ", "U+AB79">>, <<"Ꭺ", "U+AB7A">>,
     <<"Ꭻ", "U+AB7B">>, <<"Ꭼ", "U+AB7C">>, <<"Ꭽ", "U+AB7D">>, <<"Ꭾ", "U+AB7E">>,
     <<"Ꭿ", "U+AB7F">>, <<"Ꮀ", "ꮀ">>, <<"Ꮁ", "ꮁ">>, <<"Ꮂ", "ꮂ">>, <<"Ꮃ", "ꮃ">>, <<"Ꮄ", "ꮄ">>,
     <<"Ꮅ", "ꮅ">>, <<"Ꮆ", "ꮆ">>, <<"Ꮇ", "ꮇ">>, <<"Ꮈ", "ꮈ">>, <<"Ꮉ", "ꮉ">>, <<"Ꮊ", "ꮊ">>,
     <<"Ꮋ", "ꮋ">>, <<"Ꮌ", "ꮌ">>, <<"Ꮍ", "ꮍ">>, <<"Ꮎ", "ꮎ">>, <<"Ꮏ", "ꮏ">>, <<"Ꮐ", "ꮐ">>,
     <<"Ꮑ", "ꮑ">>, <<"Ꮒ", "ꮒ">>, <<"Ꮓ", "ꮓ">>, <<"Ꮔ", "ꮔ">>, <<"Ꮕ", "ꮕ">>, <<"Ꮖ", "ꮖ">>,
     <<"Ꮗ", "ꮗ">>, <<"Ꮘ", "ꮘ">>, <<"Ꮙ", "ꮙ">>, <<"Ꮚ", "ꮚ">>, <<"Ꮛ", "ꮛ">>, <<"Ꮜ", "ꮜ">>,
     <<"Ꮝ", "ꮝ">>, <<"Ꮞ", "ꮞ">>, <<"Ꮟ", "ꮟ">>, <<"Ꮠ", "ꮠ">>, <<"Ꮡ", "ꮡ">>, <<"Ꮢ", "ꮢ">>,
     <<"Ꮣ", "ꮣ">>, <<"Ꮤ", "ꮤ">>, <<"Ꮥ", "ꮥ">>, <<"Ꮦ", "ꮦ">>, <<"Ꮧ", "ꮧ">>, <<"Ꮨ", "ꮨ">>,
     <<"Ꮩ", "ꮩ">>, <<"Ꮪ", "ꮪ">>, <<"Ꮫ", "ꮫ">>, <<"Ꮬ", "ꮬ">>, <<"Ꮭ", "ꮭ">>, <<"Ꮮ", "ꮮ">>,
     <<"Ꮯ", "ꮯ">>, <<"Ꮰ", "ꮰ">>, <<"Ꮱ", "ꮱ">>, <<"Ꮲ", "ꮲ">>, <<"Ꮳ", "ꮳ">>, <<"Ꮴ", "ꮴ">>,
     <<"Ꮵ", "ꮵ">>, <<"Ꮶ", "ꮶ">>, <<"Ꮷ", "ꮷ">>, <<"Ꮸ", "ꮸ">>, <<"Ꮹ", "ꮹ">>, <<"Ꮺ", "ꮺ">>,
     <<"Ꮻ", "ꮻ">>, <<"Ꮼ", "ꮼ">>, <<"Ꮽ", "ꮽ">>, <<"Ꮾ", "ꮾ">>, <<"Ꮿ", "ꮿ">>, <<"Ᏸ", "ᏸ">>,
     <<"Ᏹ", "ᏹ">>, <<"Ᏺ", "ᏺ">>, <<"Ᏻ", "ᏻ">>, <<"Ᏼ", "ᏼ">>, <<"Ᏽ", "ᏽ">>, <<"Ᲊ", "ᲊ">>,
     <<"Ა", "ა">>, <<"Ბ", "ბ">>, <<"Გ", "გ">>, <<"Დ", "დ">>, <<"Ე", "ე">>, <<"Ვ", "ვ">>,
     <<"Ზ", "ზ">>, <<"Თ", "თ">>, <<"Ი", "ი">>, <<"Კ", "კ">>, <<"Ლ", "ლ">>, <<"Მ", "მ">>,
     <<"Ნ", "ნ">>, <<"Ო", "ო">>, <<"Პ", "პ">>, <<"Ჟ", "ჟ">>, <<"Რ", "რ">>, <<"Ს", "ს">>,
     <<"Ტ", "ტ">>, <<"Უ", "უ">>, <<"Ფ", "ფ">>, <<"Ქ", "ქ">>, <<"Ღ", "ღ">>, <<"Ყ", "ყ">>,
     <<"Შ", "შ">>, <<"Ჩ", "ჩ">>, <<"Ც", "ც">>, <<"Ძ", "ძ">>, <<"Წ", "წ">>, <<"Ჭ", "ჭ">>,
     <<"Ხ", "ხ">>, <<"Ჯ", "ჯ">>, <<"Ჰ", "ჰ">>, <<"Ჱ", "ჱ">>, <<"Ჲ", "ჲ">>, <<"Ჳ", "ჳ">>,
     <<"Ჴ", "ჴ">>, <<"Ჵ", "ჵ">>, <<"Ჶ", "ჶ">>, <<"Ჷ", "ჷ">>, <<"Ჸ", "ჸ">>, <<"Ჹ", "ჹ">>,
     <<"Ჺ", "ჺ">>, <<"Ჽ", "ჽ">>, <<"Ჾ", "ჾ">>, <<"Ჿ", "ჿ">>, <<"U+1E00", "U+1E01">>,
     <<"U+1E02", "U+1E03">>, <<"U+1E04", "U+1E05">>, <<"U+1E06", "U+1E07">>,
     <<"U+1E08", "U+1E09">>, <<"U+1E0A", "U+1E0B">>, <<"U+1E0C", "U+1E0D">>,
     <<"U+1E0E", "U+1E0F">>, <<"U+1E10", "U+1E11">>, <<"U+1E12", "U+1E13">>,
     <<"U+1E14", "U+1E15">>, <<"U+1E16", "U+1E17">>, <<"U+1E18", "U+1E19">>,
     <<"U+1E1A", "U+1E1B">>, <<"U+1E1C", "U+1E1D">>, <<"U+1E1E", "U+1E1F">>,
     <<"U+1E20", "U+1E21">>, <<"U+1E22", "U+1E23">>, <<"U+1E24", "U+1E25">>,
     <<"U+1E26", "U+1E27">>, <<"U+1E28", "U+1E29">>, <<"U+1E2A", "U+1E2B">>,
     <<"U+1E2C", "U+1E2D">>, <<"U+1E2E", "U+1E2F">>, <<"U+1E30", "U+1E31">>,
     <<"U+1E32", "U+1E33">>, <<"U+1E34", "U+1E35">>, <<"U+1E36", "U+1E37">>,
     <<"U+1E38", "U+1E39">>, <<"U+1E3A", "U+1E3B">>, <<"U+1E3C", "U+1E3D">>,
     <<"U+1E3E", "U+1E3F">>, <<"U+1E40", "U+1E41">>, <<"U+1E42", "U+1E43">>,
     <<"U+1E44", "U+1E45">>, <<"U+1E46", "U+1E47">>, <<"U+1E48", "U+1E49">>,
     <<"U+1E4A", "U+1E4B">>, <<"U+1E4C", "U+1E4D">>, <<"U+1E4E", "U+1E4F">>,
     <<"U+1E50", "U+1E51">>, <<"U+1E52", "U+1E53">>, <<"U+1E54", "U+1E55">>,
     <<"U+1E56", "U+1E57">>, <<"U+1E58", "U+1E59">>, <<"U+1E5A", "U+1E5B">>,
     <<"U+1E5C", "U+1E5D">>, <<"U+1E5E", "U+1E5F">>, <<"U+1E60", "U+1E61">>,
     <<"U+1E62", "U+1E63">>, <<"U+1E64", "U+1E65">>, <<"U+1E66", "U+1E67">>,
     <<"U+1E68", "U+1E69">>, <<"U+1E6A", "U+1E6B">>, <<"U+1E6C", "U+1E6D">>,
     <<"U+1E6E", "U+1E6F">>, <<"U+1E70", "U+1E71">>, <<"U+1E72", "U+1E73">>,
     <<"U+1E74", "U+1E75">>, <<"U+1E76", "U+1E77">>, <<"U+1E78", "U+1E79">>,
     <<"U+1E7A", "U+1E7B">>, <<"U+1E7C", "U+1E7D">>, <<"U+1E7E", "U+1E7F">>, <<"Ẁ", "ẁ">>,
     <<"Ẃ", "ẃ">>, <<"Ẅ", "ẅ">>, <<"Ẇ", "ẇ">>, <<"Ẉ", "ẉ">>, <<"Ẋ", "ẋ">>, <<"Ẍ", "ẍ">>,
     <<"Ẏ", "ẏ">>, <<"Ẑ", "ẑ">>, <<"Ẓ", "ẓ">>, <<"Ẕ", "ẕ">>, <<"ẞ", "ß">>, <<"Ạ", "ạ">>,
     <<"Ả", "ả">>, <<"Ấ", "ấ">>, <<"Ầ", "ầ">>, <<"Ẩ", "ẩ">>, <<"Ẫ", "ẫ">>, <<"Ậ", "ậ">>,
     <<"Ắ", "ắ">>, <<"Ằ", "ằ">>, <<"Ẳ", "ẳ">>, <<"Ẵ", "ẵ">>, <<"Ặ", "ặ">>, <<"Ẹ", "ẹ">>,
     <<"Ẻ", "ẻ">>, <<"Ẽ", "ẽ">>, <<"Ế", "ế">>, <<"Ề", "ề">>, <<"Ể", "ể">>, <<"Ễ", "ễ">>,
     <<"Ệ", "ệ">>, <<"Ỉ", "ỉ">>, <<"Ị", "ị">>, <<"Ọ", "ọ">>, <<"Ỏ", "ỏ">>, <<"Ố", "ố">>,
     <<"Ồ", "ồ">>, <<"Ổ", "ổ">>, <<"Ỗ", "ỗ">>, <<"Ộ", "ộ">>, <<"Ớ", "ớ">>, <<"Ờ", "ờ">>,
     <<"Ở", "ở">>, <<"Ỡ", "ỡ">>, <<"Ợ", "ợ">>, <<"Ụ", "ụ">>, <<"Ủ", "ủ">>, <<"Ứ", "ứ">>,
     <<"Ừ", "ừ">>, <<"Ử", "ử">>, <<"Ữ", "ữ">>, <<"Ự", "ự">>, <<"Ỳ", "ỳ">>, <<"Ỵ", "ỵ">>,
     <<"Ỷ", "ỷ">>, <<"Ỹ", "ỹ">>, <<"Ỻ", "ỻ">>, <<"Ỽ", "ỽ">>, <<"Ỿ", "ỿ">>,
     <<"U+1F08", "U+1F00">>, <<"U+1F09", "U+1F01">>, <<"U+1F0A", "U+1F02">>,
     <<"U+1F0B", "U+1F03">>, <<"U+1F0C", "U+1F04">>, <<"U+1F0D", "U+1F05">>,
     <<"U+1F0E", "U+1F06">>, <<"U+1F0F", "U+1F07">>, <<"U+1F18", "U+1F10">>,
     <<"U+1F19", "U+1F11">>, <<"U+1F1A", "U+1F12">>, <<"U+1F1B", "U+1F13">>,
     <<"U+1F1C", "U+1F14">>, <<"U+1F1D", "U+1F15">>, <<"U+1F28", "U+1F20">>,
     <<"U+1F29", "U+1F21">>, <<"U+1F2A", "U+1F22">>, <<"U+1F2B", "U+1F23">>,
     <<"U+1F2C", "U+1F24">>, <<"U+1F2D", "U+1F25">>, <<"U+1F2E", "U+1F26">>,
     <<"U+1F2F", "U+1F27">>, <<"U+1F38", "U+1F30">>, <<"U+1F39", "U+1F31">>,
     <<"U+1F3A", "U+1F32">>, <<"U+1F3B", "U+1F33">>, <<"U+1F3C", "U+1F34">>,
     <<"U+1F3D", "U+1F35">>, <<"U+1F3E", "U+1F36">>, <<"U+1F3F", "U+1F37">>,
     <<"U+1F48", "U+1F40">>, <<"U+1F49", "U+1F41">>, <<"U+1F4A", "U+1F42">>,
     <<"U+1F4B", "U+1F43">>, <<"U+1F4C", "U+1F44">>, <<"U+1F4D", "U+1F45">>,
     <<"U+1F59", "U+1F51">>, <<"U+1F5B", "U+1F53">>, <<"U+1F5D", "U+1F55">>,
     <<"U+1F5F", "U+1F57">>, <<"U+1F68", "U+1F60">>, <<"U+1F69", "U+1F61">>,
     <<"U+1F6A", "U+1F62">>, <<"U+1F6B", "U+1F63">>, <<"U+1F6C", "U+1F64">>,
     <<"U+1F6D", "U+1F65">>, <<"U+1F6E", "U+1F66">>, <<"U+1F6F", "U+1F67">>, <<"ᾈ", "ᾀ">>,
     <<"ᾉ", "ᾁ">>, <<"ᾊ", "ᾂ">>, <<"ᾋ", "ᾃ">>, <<"ᾌ", "ᾄ">>, <<"ᾍ", "ᾅ">>, <<"ᾎ", "ᾆ">>,
     <<"ᾏ", "ᾇ">>, <<"ᾘ", "ᾐ">>, <<"ᾙ", "ᾑ">>, <<"ᾚ", "ᾒ">>, <<"ᾛ", "ᾓ">>, <<"ᾜ", "ᾔ">>,
     <<"ᾝ", "ᾕ">>, <<"ᾞ", "ᾖ">>, <<"ᾟ", "ᾗ">>, <<"ᾨ", "ᾠ">>, <<"ᾩ", "ᾡ">>, <<"ᾪ", "ᾢ">>,
     <<"ᾫ", "ᾣ">>, <<"ᾬ", "ᾤ">>, <<"ᾭ", "ᾥ">>, <<"ᾮ", "ᾦ">>, <<"ᾯ", "ᾧ">>, <<"Ᾰ", "ᾰ">>,
     <<"Ᾱ", "ᾱ">>, <<"Ὰ", "U+1F70">>, <<"Ά", "U+1F71">>, <<"ᾼ", "ᾳ">>, <<"Ὲ", "U+1F72">>,
     <<"Έ", "U+1F73">>, <<"Ὴ", "U+1F74">>, <<"Ή", "U+1F75">>, <<"ῌ", "ῃ">>, <<"Ῐ", "ῐ">>,
     <<"Ῑ", "ῑ">>, <<"Ὶ", "U+1F76">>, <<"Ί", "U+1F77">>, <<"Ῠ", "ῠ">>, <<"Ῡ", "ῡ">>,
     <<"Ὺ", "U+1F7A">>, <<"Ύ", "U+1F7B">>, <<"Ῥ", "ῥ">>, <<"Ὸ", "U+1F78">>, <<"Ό", "U+1F79">>,
     <<"Ὼ", "U+1F7C">>, <<"Ώ", "U+1F7D">>, <<"ῼ", "ῳ">>, <<"U+2126", "ω">>, <<"U+212A", "k">>,
     <<"U+212B", "å">>, <<"U+2132", "U+214E">>, <<"U+2160", "U+2170">>, <<"U+2161", "U+2171">>,
     <<"U+2162", "U+2172">>, <<"U+2163", "U+2173">>, <<"U+2164", "U+2174">>,
     <<"U+2165", "U+2175">>, <<"U+2166", "U+2176">>, <<"U+2167", "U+2177">>,
     <<"U+2168", "U+2178">>, <<"U+2169", "U+2179">>, <<"U+216A", "U+217A">>,
     <<"U+216B", "U+217B">>, <<"U+216C", "U+217C">>, <<"U+216D", "U+217D">>,
     <<"U+216E", "U+217E">>, <<"U+216F", "U+217F">>, <<"Ↄ", "ↄ">>, <<"Ⓐ", "ⓐ">>, <<"Ⓑ", "ⓑ">>,
     <<"Ⓒ", "ⓒ">>, <<"Ⓓ", "ⓓ">>, <<"Ⓔ", "ⓔ">>, <<"Ⓕ", "ⓕ">>, <<"Ⓖ", "ⓖ">>, <<"Ⓗ", "ⓗ">>,
     <<"Ⓘ", "ⓘ">>, <<"Ⓙ", "ⓙ">>, <<"Ⓚ", "ⓚ">>, <<"Ⓛ", "ⓛ">>, <<"Ⓜ", "ⓜ">>, <<"Ⓝ", "ⓝ">>,
     <<"Ⓞ", "ⓞ">>, <<"Ⓟ", "ⓟ">>, <<"Ⓠ", "ⓠ">>, <<"Ⓡ", "ⓡ">>, <<"Ⓢ", "ⓢ">>, <<"Ⓣ", "ⓣ">>,
     <<"Ⓤ", "ⓤ">>, <<"Ⓥ", "ⓥ">>, <<"Ⓦ", "ⓦ">>, <<"Ⓧ", "ⓧ">>, <<"Ⓨ", "ⓨ">>, <<"Ⓩ", "ⓩ">>,
     <<"U+2C00", "U+2C30">>, <<"U+2C01", "U+2C31">>, <<"U+2C02", "U+2C32">>,
     <<"U+2C03", "U+2C33">>, <<"U+2C04", "U+2C34">>, <<"U+2C05", "U+2C35">>,
     <<"U+2C06", "U+2C36">>, <<"U+2C07", "U+2C37">>, <<"U+2C08", "U+2C38">>,
     <<"U+2C09", "U+2C39">>, <<"U+2C0A", "U+2C3A">>, <<"U+2C0B", "U+2C3B">>,
     <<"U+2C0C", "U+2C3C">>, <<"U+2C0D", "U+2C3D">>, <<"U+2C0E", "U+2C3E">>,
     <<"U+2C0F", "U+2C3F">>, <<"U+2C10", "U+2C40">>, <<"U+2C11", "U+2C41">>,
     <<"U+2C12", "U+2C42">>, <<"U+2C13", "U+2C43">>, <<"U+2C14", "U+2C44">>,
     <<"U+2C15", "U+2C45">>, <<"U+2C16", "U+2C46">>, <<"U+2C17", "U+2C47">>,
     <<"U+2C18", "U+2C48">>, <<"U+2C19", "U+2C49">>, <<"U+2C1A", "U+2C4A">>,
     <<"U+2C1B", "U+2C4B">>, <<"U+2C1C", "U+2C4C">>, <<"U+2C1D", "U+2C4D">>,
     <<"U+2C1E", "U+2C4E">>, <<"U+2C1F", "U+2C4F">>, <<"U+2C20", "U+2C50">>,
     <<"U+2C21", "U+2C51">>, <<"U+2C22", "U+2C52">>, <<"U+2C23", "U+2C53">>,
     <<"U+2C24", "U+2C54">>, <<"U+2C25", "U+2C55">>, <<"U+2C26", "U+2C56">>,
     <<"U+2C27", "U+2C57">>, <<"U+2C28", "U+2C58">>, <<"U+2C29", "U+2C59">>,
     <<"U+2C2A", "U+2C5A">>, <<"U+2C2B", "U+2C5B">>, <<"U+2C2C", "U+2C5C">>,
     <<"U+2C2D", "U+2C5D">>, <<"U+2C2E", "U+2C5E">>, <<"U+2C2F", "U+2C5F">>,
     <<"U+2C60", "U+2C61">>, <<"U+2C62", "U+026B">>, <<"U+2C63", "U+1D7D">>,
     <<"U+2C64", "U+027D">>, <<"U+2C67", "U+2C68">>, <<"U+2C69", "U+2C6A">>,
     <<"U+2C6B", "U+2C6C">>, <<"U+2C6D", "U+0251">>, <<"U+2C6E", "U+0271">>,
     <<"U+2C6F", "U+0250">>, <<"U+2C70", "U+0252">>, <<"U+2C72", "U+2C73">>,
     <<"U+2C75", "U+2C76">>, <<"U+2C7E", "U+023F">>, <<"U+2C7F", "U+0240">>, <<"Ⲁ", "ⲁ">>,
     <<"Ⲃ", "ⲃ">>, <<"Ⲅ", "ⲅ">>, <<"Ⲇ", "ⲇ">>, <<"Ⲉ", "ⲉ">>, <<"Ⲋ", "ⲋ">>, <<"Ⲍ", "ⲍ">>,
     <<"Ⲏ", "ⲏ">>, <<"Ⲑ", "ⲑ">>, <<"Ⲓ", "ⲓ">>, <<"Ⲕ", "ⲕ">>, <<"Ⲗ", "ⲗ">>, <<"Ⲙ", "ⲙ">>,
     <<"Ⲛ", "ⲛ">>, <<"Ⲝ", "ⲝ">>, <<"Ⲟ", "ⲟ">>, <<"Ⲡ", "ⲡ">>, <<"Ⲣ", "ⲣ">>, <<"Ⲥ", "ⲥ">>,
     <<"Ⲧ", "ⲧ">>, <<"Ⲩ", "ⲩ">>, <<"Ⲫ", "ⲫ">>, <<"Ⲭ", "ⲭ">>, <<"Ⲯ", "ⲯ">>, <<"Ⲱ", "ⲱ">>,
     <<"Ⲳ", "ⲳ">>, <<"Ⲵ", "ⲵ">>, <<"Ⲷ", "ⲷ">>, <<"Ⲹ", "ⲹ">>, <<"Ⲻ", "ⲻ">>, <<"Ⲽ", "ⲽ">>,
     <<"Ⲿ", "ⲿ">>, <<"Ⳁ", "ⳁ">>, <<"Ⳃ", "ⳃ">>, <<"Ⳅ", "ⳅ">>, <<"Ⳇ", "ⳇ">>, <<"Ⳉ", "ⳉ">>,
     <<"Ⳋ", "ⳋ">>, <<"Ⳍ", "ⳍ">>, <<"Ⳏ", "ⳏ">>, <<"Ⳑ", "ⳑ">>, <<"Ⳓ", "ⳓ">>, <<"Ⳕ", "ⳕ">>,
     <<"Ⳗ", "ⳗ">>, <<"Ⳙ", "ⳙ">>, <<"Ⳛ", "ⳛ">>, <<"Ⳝ", "ⳝ">>, <<"Ⳟ", "ⳟ">>, <<"Ⳡ", "ⳡ">>,
     <<"Ⳣ", "ⳣ">>, <<"Ⳬ", "ⳬ">>, <<"Ⳮ", "ⳮ">>, <<"Ⳳ", "ⳳ">>, <<"U+A640", "U+A641">>,
     <<"U+A642", "U+A643">>, <<"U+A644", "U+A645">>, <<"U+A646", "U+A647">>,
     <<"U+A648", "U+A649">>, <<"U+A64A", "U+A64B">>, <<"U+A64C", "U+A64D">>,
     <<"U+A64E", "U+A64F">>, <<"U+A650", "U+A651">>, <<"U+A652", "U+A653">>,
     <<"U+A654", "U+A655">>, <<"U+A656", "U+A657">>, <<"U+A658", "U+A659">>,
     <<"U+A65A", "U+A65B">>, <<"U+A65C", "U+A65D">>, <<"U+A65E", "U+A65F">>,
     <<"U+A660", "U+A661">>, <<"U+A662", "U+A663">>, <<"U+A664", "U+A665">>,
     <<"U+A666", "U+A667">>, <<"U+A668", "U+A669">>, <<"U+A66A", "U+A66B">>,
     <<"U+A66C", "U+A66D">>, <<"Ꚁ", "ꚁ">>, <<"Ꚃ", "ꚃ">>, <<"Ꚅ", "ꚅ">>, <<"Ꚇ", "ꚇ">>,
     <<"Ꚉ", "ꚉ">>, <<"Ꚋ", "ꚋ">>, <<"Ꚍ", "ꚍ">>, <<"Ꚏ", "ꚏ">>, <<"Ꚑ", "ꚑ">>, <<"Ꚓ", "ꚓ">>,
     <<"Ꚕ", "ꚕ">>, <<"Ꚗ", "ꚗ">>, <<"Ꚙ", "ꚙ">>, <<"Ꚛ", "ꚛ">>, <<"U+A722", "U+A723">>,
     <<"U+A724", "U+A725">>, <<"U+A726", "U+A727">>, <<"U+A728", "U+A729">>,
     <<"U+A72A", "U+A72B">>, <<"U+A72C", "U+A72D">>, <<"U+A72E", "U+A72F">>,
     <<"U+A732", "U+A733">>, <<"U+A734", "U+A735">>, <<"U+A736", "U+A737">>,
     <<"U+A738", "U+A739">>, <<"U+A73A", "U+A73B">>, <<"U+A73C", "U+A73D">>,
     <<"U+A73E", "U+A73F">>, <<"U+A740", "U+A741">>, <<"U+A742", "U+A743">>,
     <<"U+A744", "U+A745">>, <<"U+A746", "U+A747">>, <<"U+A748", "U+A749">>,
     <<"U+A74A", "U+A74B">>, <<"U+A74C", "U+A74D">>, <<"U+A74E", "U+A74F">>,
     <<"U+A750", "U+A751">>, <<"U+A752", "U+A753">>, <<"U+A754", "U+A755">>,
     <<"U+A756", "U+A757">>, <<"U+A758", "U+A759">>, <<"U+A75A", "U+A75B">>,
     <<"U+A75C", "U+A75D">>, <<"U+A75E", "U+A75F">>, <<"U+A760", "U+A761">>,
     <<"U+A762", "U+A763">>, <<"U+A764", "U+A765">>, <<"U+A766", "U+A767">>,
     <<"U+A768", "U+A769">>, <<"U+A76A", "U+A76B">>, <<"U+A76C", "U+A76D">>,
     <<"U+A76E", "U+A76F">>, <<"U+A779", "U+A77A">>, <<"U+A77B", "U+A77C">>,
     <<"U+A77D", "U+1D79">>, <<"U+A77E", "U+A77F">>, <<"Ꞁ", "ꞁ">>, <<"Ꞃ", "ꞃ">>, <<"Ꞅ", "ꞅ">>,
     <<"Ꞇ", "ꞇ">>, <<"Ꞌ", "ꞌ">>, <<"Ɥ", "U+0265">>, <<"Ꞑ", "ꞑ">>, <<"Ꞓ", "ꞓ">>, <<"Ꞗ", "ꞗ">>,
     <<"Ꞙ", "ꞙ">>, <<"Ꞛ", "ꞛ">>, <<"Ꞝ", "ꞝ">>, <<"Ꞟ", "ꞟ">>, <<"Ꞡ", "ꞡ">>, <<"Ꞣ", "ꞣ">>,
     <<"Ꞥ", "ꞥ">>, <<"Ꞧ", "ꞧ">>, <<"Ꞩ", "ꞩ">>, <<"Ɦ", "U+0266">>, <<"Ɜ", "U+025C">>,
     <<"Ɡ", "U+0261">>, <<"Ɬ", "U+026C">>, <<"Ɪ", "U+026A">>, <<"Ʞ", "ʞ">>, <<"Ʇ", "ʇ">>,
     <<"Ʝ", "ʝ">>, <<"Ꭓ", "U+AB53">>, <<"Ꞵ", "ꞵ">>, <<"Ꞷ", "ꞷ">>, <<"Ꞹ", "ꞹ">>, <<"Ꞻ", "ꞻ">>,
     <<"Ꞽ", "ꞽ">>, <<"Ꞿ", "ꞿ">>, <<"Ꟁ", "ꟁ">>, <<"Ꟃ", "ꟃ">>, <<"Ꞔ", "ꞔ">>, <<"Ʂ", "ʂ">>,
     <<"Ᶎ", "ᶎ">>, <<"Ꟈ", "ꟈ">>, <<"Ꟊ", "ꟊ">>, <<"Ɤ", "U+0264">>, <<"Ꟍ", "ꟍ">>, <<"꟎", "꟏">>,
     <<"Ꟑ", "ꟑ">>, <<"꟒", "ꟓ">>, <<"꟔", "ꟕ">>, <<"Ꟗ", "ꟗ">>, <<"Ꟙ", "ꟙ">>, <<"Ꟛ", "ꟛ">>,
     <<"Ƛ", "ƛ">>, <<"Ꟶ", "ꟶ">>, <<"U+FF21", "U+FF41">>, <<"U+FF22", "U+FF42">>,
     <<"U+FF23", "U+FF43">>, <<"U+FF24", "U+FF44">>, <<"U+FF25", "U+FF45">>,
     <<"U+FF26", "U+FF46">>, <<"U+FF27", "U+FF47">>, <<"U+FF28", "U+FF48">>,
     <<"U+FF29", "U+FF49">>, <<"U+FF2A", "U+FF4A">>, <<"U+FF2B", "U+FF4B">>,
     <<"U+FF2C", "U+FF4C">>, <<"U+FF2D", "U+FF4D">>, <<"U+FF2E", "U+FF4E">>,
     <<"U+FF2F", "U+FF4F">>, <<"U+FF30", "U+FF50">>, <<"U+FF31", "U+FF51">>,
     <<"U+FF32", "U+FF52">>, <<"U+FF33", "U+FF53">>, <<"U+FF34", "U+FF54">>,
     <<"U+FF35", "U+FF55">>, <<"U+FF36", "U+FF56">>, <<"U+FF37", "U+FF57">>,
     <<"U+FF38", "U+FF58">>, <<"U+FF39", "U+FF59">>, <<"U+FF3A", "U+FF5A">>}

\* The letters written as a surrogate pair, each with its lower-case form.
LowerCaseSurrogatePairs ==
    {<<<<"U+D801", "U+DC00">>, <<"U+D801", "U+DC28">>>>,
     <<<<"U+D801", "U+DC01">>, <<"U+D801", "U+DC29">>>>,
     <<<<"U+D801", "U+DC02">>, <<"U+D801", "U+DC2A">>>>,
     <<<<"U+D801", "U+DC03">>, <<"U+D801", "U+DC2B">>>>,
     <<<<"U+D801", "U+DC04">>, <<"U+D801", "U+DC2C">>>>,
     <<<<"U+D801", "U+DC05">>, <<"U+D801", "U+DC2D">>>>,
     <<<<"U+D801", "U+DC06">>, <<"U+D801", "U+DC2E">>>>,
     <<<<"U+D801", "U+DC07">>, <<"U+D801", "U+DC2F">>>>,
     <<<<"U+D801", "U+DC08">>, <<"U+D801", "U+DC30">>>>,
     <<<<"U+D801", "U+DC09">>, <<"U+D801", "U+DC31">>>>,
     <<<<"U+D801", "U+DC0A">>, <<"U+D801", "U+DC32">>>>,
     <<<<"U+D801", "U+DC0B">>, <<"U+D801", "U+DC33">>>>,
     <<<<"U+D801", "U+DC0C">>, <<"U+D801", "U+DC34">>>>,
     <<<<"U+D801", "U+DC0D">>, <<"U+D801", "U+DC35">>>>,
     <<<<"U+D801", "U+DC0E">>, <<"U+D801", "U+DC36">>>>,
     <<<<"U+D801", "U+DC0F">>, <<"U+D801", "U+DC37">>>>,
     <<<<"U+D801", "U+DC10">>, <<"U+D801", "U+DC38">>>>,
     <<<<"U+D801", "U+DC11">>, <<"U+D801", "U+DC39">>>>,
     <<<<"U+D801", "U+DC12">>, <<"U+D801", "U+DC3A">>>>,
     <<<<"U+D801", "U+DC13">>, <<"U+D801", "U+DC3B">>>>,
     <<<<"U+D801", "U+DC14">>, <<"U+D801", "U+DC3C">>>>,
     <<<<"U+D801", "U+DC15">>, <<"U+D801", "U+DC3D">>>>,
     <<<<"U+D801", "U+DC16">>, <<"U+D801", "U+DC3E">>>>,
     <<<<"U+D801", "U+DC17">>, <<"U+D801", "U+DC3F">>>>,
     <<<<"U+D801", "U+DC18">>, <<"U+D801", "U+DC40">>>>,
     <<<<"U+D801", "U+DC19">>, <<"U+D801", "U+DC41">>>>,
     <<<<"U+D801", "U+DC1A">>, <<"U+D801", "U+DC42">>>>,
     <<<<"U+D801", "U+DC1B">>, <<"U+D801", "U+DC43">>>>,
     <<<<"U+D801", "U+DC1C">>, <<"U+D801", "U+DC44">>>>,
     <<<<"U+D801", "U+DC1D">>, <<"U+D801", "U+DC45">>>>,
     <<<<"U+D801", "U+DC1E">>, <<"U+D801", "U+DC46">>>>,
     <<<<"U+D801", "U+DC1F">>, <<"U+D801", "U+DC47">>>>,
     <<<<"U+D801", "U+DC20">>, <<"U+D801", "U+DC48">>>>,
     <<<<"U+D801", "U+DC21">>, <<"U+D801", "U+DC49">>>>,
     <<<<"U+D801", "U+DC22">>, <<"U+D801", "U+DC4A">>>>,
     <<<<"U+D801", "U+DC23">>, <<"U+D801", "U+DC4B">>>>,
     <<<<"U+D801", "U+DC24">>, <<"U+D801", "U+DC4C">>>>,
     <<<<"U+D801", "U+DC25">>, <<"U+D801", "U+DC4D">>>>,
     <<<<"U+D801", "U+DC26">>, <<"U+D801", "U+DC4E">>>>,
     <<<<"U+D801", "U+DC27">>, <<"U+D801", "U+DC4F">>>>,
     <<<<"U+D801", "U+DCB0">>, <<"U+D801", "U+DCD8">>>>,
     <<<<"U+D801", "U+DCB1">>, <<"U+D801", "U+DCD9">>>>,
     <<<<"U+D801", "U+DCB2">>, <<"U+D801", "U+DCDA">>>>,
     <<<<"U+D801", "U+DCB3">>, <<"U+D801", "U+DCDB">>>>,
     <<<<"U+D801", "U+DCB4">>, <<"U+D801", "U+DCDC">>>>,
     <<<<"U+D801", "U+DCB5">>, <<"U+D801", "U+DCDD">>>>,
     <<<<"U+D801", "U+DCB6">>, <<"U+D801", "U+DCDE">>>>,
     <<<<"U+D801", "U+DCB7">>, <<"U+D801", "U+DCDF">>>>,
     <<<<"U+D801", "U+DCB8">>, <<"U+D801", "U+DCE0">>>>,
     <<<<"U+D801", "U+DCB9">>, <<"U+D801", "U+DCE1">>>>,
     <<<<"U+D801", "U+DCBA">>, <<"U+D801", "U+DCE2">>>>,
     <<<<"U+D801", "U+DCBB">>, <<"U+D801", "U+DCE3">>>>,
     <<<<"U+D801", "U+DCBC">>, <<"U+D801", "U+DCE4">>>>,
     <<<<"U+D801", "U+DCBD">>, <<"U+D801", "U+DCE5">>>>,
     <<<<"U+D801", "U+DCBE">>, <<"U+D801", "U+DCE6">>>>,
     <<<<"U+D801", "U+DCBF">>, <<"U+D801", "U+DCE7">>>>,
     <<<<"U+D801", "U+DCC0">>, <<"U+D801", "U+DCE8">>>>,
     <<<<"U+D801", "U+DCC1">>, <<"U+D801", "U+DCE9">>>>,
     <<<<"U+D801", "U+DCC2">>, <<"U+D801", "U+DCEA">>>>,
     <<<<"U+D801", "U+DCC3">>, <<"U+D801", "U+DCEB">>>>,
     <<<<"U+D801", "U+DCC4">>, <<"U+D801", "U+DCEC">>>>,
     <<<<"U+D801", "U+DCC5">>, <<"U+D801", "U+DCED">>>>,
     <<<<"U+D801", "U+DCC6">>, <<"U+D801", "U+DCEE">>>>,
     <<<<"U+D801", "U+DCC7">>, <<"U+D801", "U+DCEF">>>>,
     <<<<"U+D801", "U+DCC8">>, <<"U+D801", "U+DCF0">>>>,
     <<<<"U+D801", "U+DCC9">>, <<"U+D801", "U+DCF1">>>>,
     <<<<"U+D801", "U+DCCA">>, <<"U+D801", "U+DCF2">>>>,
     <<<<"U+D801", "U+DCCB">>, <<"U+D801", "U+DCF3">>>>,
     <<<<"U+D801", "U+DCCC">>, <<"U+D801", "U+DCF4">>>>,
     <<<<"U+D801", "U+DCCD">>, <<"U+D801", "U+DCF5">>>>,
     <<<<"U+D801", "U+DCCE">>, <<"U+D801", "U+DCF6">>>>,
     <<<<"U+D801", "U+DCCF">>, <<"U+D801", "U+DCF7">>>>,
     <<<<"U+D801", "U+DCD0">>, <<"U+D801", "U+DCF8">>>>,
     <<<<"U+D801", "U+DCD1">>, <<"U+D801", "U+DCF9">>>>,
     <<<<"U+D801", "U+DCD2">>, <<"U+D801", "U+DCFA">>>>,
     <<<<"U+D801", "U+DCD3">>, <<"U+D801", "U+DCFB">>>>,
     <<<<"U+D801", "U+DD70">>, <<"U+D801", "U+DD97">>>>,
     <<<<"U+D801", "U+DD71">>, <<"U+D801", "U+DD98">>>>,
     <<<<"U+D801", "U+DD72">>, <<"U+D801", "U+DD99">>>>,
     <<<<"U+D801", "U+DD73">>, <<"U+D801", "U+DD9A">>>>,
     <<<<"U+D801", "U+DD74">>, <<"U+D801", "U+DD9B">>>>,
     <<<<"U+D801", "U+DD75">>, <<"U+D801", "U+DD9C">>>>,
     <<<<"U+D801", "U+DD76">>, <<"U+D801", "U+DD9D">>>>,
     <<<<"U+D801", "U+DD77">>, <<"U+D801", "U+DD9E">>>>,
     <<<<"U+D801", "U+DD78">>, <<"U+D801", "U+DD9F">>>>,
     <<<<"U+D801", "U+DD79">>, <<"U+D801", "U+DDA0">>>>,
     <<<<"U+D801", "U+DD7A">>, <<"U+D801", "U+DDA1">>>>,
     <<<<"U+D801", "U+DD7C">>, <<"U+D801", "U+DDA3">>>>,
     <<<<"U+D801", "U+DD7D">>, <<"U+D801", "U+DDA4">>>>,
     <<<<"U+D801", "U+DD7E">>, <<"U+D801", "U+DDA5">>>>,
     <<<<"U+D801", "U+DD7F">>, <<"U+D801", "U+DDA6">>>>,
     <<<<"U+D801", "U+DD80">>, <<"U+D801", "U+DDA7">>>>,
     <<<<"U+D801", "U+DD81">>, <<"U+D801", "U+DDA8">>>>,
     <<<<"U+D801", "U+DD82">>, <<"U+D801", "U+DDA9">>>>,
     <<<<"U+D801", "U+DD83">>, <<"U+D801", "U+DDAA">>>>,
     <<<<"U+D801", "U+DD84">>, <<"U+D801", "U+DDAB">>>>,
     <<<<"U+D801", "U+DD85">>, <<"U+D801", "U+DDAC">>>>,
     <<<<"U+D801", "U+DD86">>, <<"U+D801", "U+DDAD">>>>,
     <<<<"U+D801", "U+DD87">>, <<"U+D801", "U+DDAE">>>>,
     <<<<"U+D801", "U+DD88">>, <<"U+D801", "U+DDAF">>>>,
     <<<<"U+D801", "U+DD89">>, <<"U+D801", "U+DDB0">>>>,
     <<<<"U+D801", "U+DD8A">>, <<"U+D801", "U+DDB1">>>>,
     <<<<"U+D801", "U+DD8C">>, <<"U+D801", "U+DDB3">>>>,
     <<<<"U+D801", "U+DD8D">>, <<"U+D801", "U+DDB4">>>>,
     <<<<"U+D801", "U+DD8E">>, <<"U+D801", "U+DDB5">>>>,
     <<<<"U+D801", "U+DD8F">>, <<"U+D801", "U+DDB6">>>>,
     <<<<"U+D801", "U+DD90">>, <<"U+D801", "U+DDB7">>>>,
     <<<<"U+D801", "U+DD91">>, <<"U+D801", "U+DDB8">>>>,
     <<<<"U+D801", "U+DD92">>, <<"U+D801", "U+DDB9">>>>,
     <<<<"U+D801", "U+DD94">>, <<"U+D801", "U+DDBB">>>>,
     <<<<"U+D801", "U+DD95">>, <<"U+D801", "U+DDBC">>>>,
     <<<<"U+D803", "U+DC80">>, <<"U+D803", "U+DCC0">>>>,
     <<<<"U+D803", "U+DC81">>, <<"U+D803", "U+DCC1">>>>,
     <<<<"U+D803", "U+DC82">>, <<"U+D803", "U+DCC2">>>>,
     <<<<"U+D803", "U+DC83">>, <<"U+D803", "U+DCC3">>>>,
     <<<<"U+D803", "U+DC84">>, <<"U+D803", "U+DCC4">>>>,
     <<<<"U+D803", "U+DC85">>, <<"U+D803", "U+DCC5">>>>,
     <<<<"U+D803", "U+DC86">>, <<"U+D803", "U+DCC6">>>>,
     <<<<"U+D803", "U+DC87">>, <<"U+D803", "U+DCC7">>>>,
     <<<<"U+D803", "U+DC88">>, <<"U+D803", "U+DCC8">>>>,
     <<<<"U+D803", "U+DC89">>, <<"U+D803", "U+DCC9">>>>,
     <<<<"U+D803", "U+DC8A">>, <<"U+D803", "U+DCCA">>>>,
     <<<<"U+D803", "U+DC8B">>, <<"U+D803", "U+DCCB">>>>,
     <<<<"U+D803", "U+DC8C">>, <<"U+D803", "U+DCCC">>>>,
     <<<<"U+D803", "U+DC8D">>, <<"U+D803", "U+DCCD">>>>,
     <<<<"U+D803", "U+DC8E">>, <<"U+D803", "U+DCCE">>>>,
     <<<<"U+D803", "U+DC8F">>, <<"U+D803", "U+DCCF">>>>,
     <<<<"U+D803", "U+DC90">>, <<"U+D803", "U+DCD0">>>>,
     <<<<"U+D803", "U+DC91">>, <<"U+D803", "U+DCD1">>>>,
     <<<<"U+D803", "U+DC92">>, <<"U+D803", "U+DCD2">>>>,
     <<<<"U+D803", "U+DC93">>, <<"U+D803", "U+DCD3">>>>,
     <<<<"U+D803", "U+DC94">>, <<"U+D803", "U+DCD4">>>>,
     <<<<"U+D803", "U+DC95">>, <<"U+D803", "U+DCD5">>>>,
     <<<<"U+D803", "U+DC96">>, <<"U+D803", "U+DCD6">>>>,
     <<<<"U+D803", "U+DC97">>, <<"U+D803", "U+DCD7">>>>,
     <<<<"U+D803", "U+DC98">>, <<"U+D803", "U+DCD8">>>>,
     <<<<"U+D803", "U+DC99">>, <<"U+D803", "U+DCD9">>>>,
     <<<<"U+D803", "U+DC9A">>, <<"U+D803", "U+DCDA">>>>,
     <<<<"U+D803", "U+DC9B">>, <<"U+D803", "U+DCDB">>>>,
     <<<<"U+D803", "U+DC9C">>, <<"U+D803", "U+DCDC">>>>,
     <<<<"U+D803", "U+DC9D">>, <<"U+D803", "U+DCDD">>>>,
     <<<<"U+D803", "U+DC9E">>, <<"U+D803", "U+DCDE">>>>,
     <<<<"U+D803", "U+DC9F">>, <<"U+D803", "U+DCDF">>>>,
     <<<<"U+D803", "U+DCA0">>, <<"U+D803", "U+DCE0">>>>,
     <<<<"U+D803", "U+DCA1">>, <<"U+D803", "U+DCE1">>>>,
     <<<<"U+D803", "U+DCA2">>, <<"U+D803", "U+DCE2">>>>,
     <<<<"U+D803", "U+DCA3">>, <<"U+D803", "U+DCE3">>>>,
     <<<<"U+D803", "U+DCA4">>, <<"U+D803", "U+DCE4">>>>,
     <<<<"U+D803", "U+DCA5">>, <<"U+D803", "U+DCE5">>>>,
     <<<<"U+D803", "U+DCA6">>, <<"U+D803", "U+DCE6">>>>,
     <<<<"U+D803", "U+DCA7">>, <<"U+D803", "U+DCE7">>>>,
     <<<<"U+D803", "U+DCA8">>, <<"U+D803", "U+DCE8">>>>,
     <<<<"U+D803", "U+DCA9">>, <<"U+D803", "U+DCE9">>>>,
     <<<<"U+D803", "U+DCAA">>, <<"U+D803", "U+DCEA">>>>,
     <<<<"U+D803", "U+DCAB">>, <<"U+D803", "U+DCEB">>>>,
     <<<<"U+D803", "U+DCAC">>, <<"U+D803", "U+DCEC">>>>,
     <<<<"U+D803", "U+DCAD">>, <<"U+D803", "U+DCED">>>>,
     <<<<"U+D803", "U+DCAE">>, <<"U+D803", "U+DCEE">>>>,
     <<<<"U+D803", "U+DCAF">>, <<"U+D803", "U+DCEF">>>>,
     <<<<"U+D803", "U+DCB0">>, <<"U+D803", "U+DCF0">>>>,
     <<<<"U+D803", "U+DCB1">>, <<"U+D803", "U+DCF1">>>>,
     <<<<"U+D803", "U+DCB2">>, <<"U+D803", "U+DCF2">>>>,
     <<<<"U+D803", "U+DD50">>, <<"U+D803", "U+DD70">>>>,
     <<<<"U+D803", "U+DD51">>, <<"U+D803", "U+DD71">>>>,
     <<<<"U+D803", "U+DD52">>, <<"U+D803", "U+DD72">>>>,
     <<<<"U+D803", "U+DD53">>, <<"U+D803", "U+DD73">>>>,
     <<<<"U+D803", "U+DD54">>, <<"U+D803", "U+DD74">>>>,
     <<<<"U+D803", "U+DD55">>, <<"U+D803", "U+DD75">>>>,
     <<<<"U+D803", "U+DD56">>, <<"U+D803", "U+DD76">>>>,
     <<<<"U+D803", "U+DD57">>, <<"U+D803", "U+DD77">>>>,
     <<<<"U+D803", "U+DD58">>, <<"U+D803", "U+DD78">>>>,
     <<<<"U+D803", "U+DD59">>, <<"U+D803", "U+DD79">>>>,
     <<<<"U+D803", "U+DD5A">>, <<"U+D803", "U+DD7A">>>>,
     <<<<"U+D803", "U+DD5B">>, <<"U+D803", "U+DD7B">>>>,
     <<<<"U+D803", "U+DD5C">>, <<"U+D803", "U+DD7C">>>>,
     <<<<"U+D803", "U+DD5D">>, <<"U+D803", "U+DD7D">>>>,
     <<<<"U+D803", "U+DD5E">>, <<"U+D803", "U+DD7E">>>>,
     <<<<"U+D803", "U+DD5F">>, <<"U+D803", "U+DD7F">>>>,
     <<<<"U+D803", "U+DD60">>, <<"U+D803", "U+DD80">>>>,
     <<<<"U+D803", "U+DD61">>, <<"U+D803", "U+DD81">>>>,
     <<<<"U+D803", "U+DD62">>, <<"U+D803", "U+DD82">>>>,
     <<<<"U+D803", "U+DD63">>, <<"U+D803", "U+DD83">>>>,
     <<<<"U+D803", "U+DD64">>, <<"U+D803", "U+DD84">>>>,
     <<<<"U+D803", "U+DD65">>, <<"U+D803", "U+DD85">>>>,
     <<<<"U+D806", "U+DCA0">>, <<"U+D806", "U+DCC0">>>>,
     <<<<"U+D806", "U+DCA1">>, <<"U+D806", "U+DCC1">>>>,
     <<<<"U+D806", "U+DCA2">>, <<"U+D806", "U+DCC2">>>>,
     <<<<"U+D806", "U+DCA3">>, <<"U+D806", "U+DCC3">>>>,
     <<<<"U+D806", "U+DCA4">>, <<"U+D806", "U+DCC4">>>>,
     <<<<"U+D806", "U+DCA5">>, <<"U+D806", "U+DCC5">>>>,
     <<<<"U+D806", "U+DCA6">>, <<"U+D806", "U+DCC6">>>>,
     <<<<"U+D806", "U+DCA7">>, <<"U+D806", "U+DCC7">>>>,
     <<<<"U+D806", "U+DCA8">>, <<"U+D806", "U+DCC8">>>>,
     <<<<"U+D806", "U+DCA9">>, <<"U+D806", "U+DCC9">>>>,
     <<<<"U+D806", "U+DCAA">>, <<"U+D806", "U+DCCA">>>>,
     <<<<"U+D806", "U+DCAB">>, <<"U+D806", "U+DCCB">>>>,
     <<<<"U+D806", "U+DCAC">>, <<"U+D806", "U+DCCC">>>>,
     <<<<"U+D806", "U+DCAD">>, <<"U+D806", "U+DCCD">>>>,
     <<<<"U+D806", "U+DCAE">>, <<"U+D806", "U+DCCE">>>>,
     <<<<"U+D806", "U+DCAF">>, <<"U+D806", "U+DCCF">>>>,
     <<<<"U+D806", "U+DCB0">>, <<"U+D806", "U+DCD0">>>>,
     <<<<"U+D806", "U+DCB1">>, <<"U+D806", "U+DCD1">>>>,
     <<<<"U+D806", "U+DCB2">>, <<"U+D806", "U+DCD2">>>>,
     <<<<"U+D806", "U+DCB3">>, <<"U+D806", "U+DCD3">>>>,
     <<<<"U+D806", "U+DCB4">>, <<"U+D806", "U+DCD4">>>>,
     <<<<"U+D806", "U+DCB5">>, <<"U+D806", "U+DCD5">>>>,
     <<<<"U+D806", "U+DCB6">>, <<"U+D806", "U+DCD6">>>>,
     <<<<"U+D806", "U+DCB7">>, <<"U+D806", "U+DCD7">>>>,
     <<<<"U+D806", "U+DCB8">>, <<"U+D806", "U+DCD8">>>>,
     <<<<"U+D806", "U+DCB9">>, <<"U+D806", "U+DCD9">>>>,
     <<<<"U+D806", "U+DCBA">>, <<"U+D806", "U+DCDA">>>>,
     <<<<"U+D806", "U+DCBB">>, <<"U+D806", "U+DCDB">>>>,
     <<<<"U+D806", "U+DCBC">>, <<"U+D806", "U+DCDC">>>>,
     <<<<"U+D806", "U+DCBD">>, <<"U+D806", "U+DCDD">>>>,
     <<<<"U+D806", "U+DCBE">>, <<"U+D806", "U+DCDE">>>>,
     <<<<"U+D806", "U+DCBF">>, <<"U+D806", "U+DCDF">>>>,
     <<<<"U+D81B", "U+DE40">>, <<"U+D81B", "U+DE60">>>>,
     <<<<"U+D81B", "U+DE41">>, <<"U+D81B", "U+DE61">>>>,
     <<<<"U+D81B", "U+DE42">>, <<"U+D81B", "U+DE62">>>>,
     <<<<"U+D81B", "U+DE43">>, <<"U+D81B", "U+DE63">>>>,
     <<<<"U+D81B", "U+DE44">>, <<"U+D81B", "U+DE64">>>>,
     <<<<"U+D81B", "U+DE45">>, <<"U+D81B", "U+DE65">>>>,
     <<<<"U+D81B", "U+DE46">>, <<"U+D81B", "U+DE66">>>>,
     <<<<"U+D81B", "U+DE47">>, <<"U+D81B", "U+DE67">>>>,
     <<<<"U+D81B", "U+DE48">>, <<"U+D81B", "U+DE68">>>>,
     <<<<"U+D81B", "U+DE49">>, <<"U+D81B", "U+DE69">>>>,
     <<<<"U+D81B", "U+DE4A">>, <<"U+D81B", "U+DE6A">>>>,
     <<<<"U+D81B", "U+DE4B">>, <<"U+D81B", "U+DE6B">>>>,
     <<<<"U+D81B", "U+DE4C">>, <<"U+D81B", "U+DE6C">>>>,
     <<<<"U+D81B", "U+DE4D">>, <<"U+D81B", "U+DE6D">>>>,
     <<<<"U+D81B", "U+DE4E">>, <<"U+D81B", "U+DE6E">>>>,
     <<<<"U+D81B", "U+DE4F">>, <<"U+D81B", "U+DE6F">>>>,
     <<<<"U+D81B", "U+DE50">>, <<"U+D81B", "U+DE70">>>>,
     <<<<"U+D81B", "U+DE51">>, <<"U+D81B", "U+DE71">>>>,
     <<<<"U+D81B", "U+DE52">>, <<"U+D81B", "U+DE72">>>>,
     <<<<"U+D81B", "U+DE53">>, <<"U+D81B", "U+DE73">>>>,
     <<<<"U+D81B", "U+DE54">>, <<"U+D81B", "U+DE74">>>>,
     <<<<"U+D81B", "U+DE55">>, <<"U+D81B", "U+DE75">>>>,
     <<<<"U+D81B", "U+DE56">>, <<"U+D81B", "U+DE76">>>>,
     <<<<"U+D81B", "U+DE57">>, <<"U+D81B", "U+DE77">>>>,
     <<<<"U+D81B", "U+DE58">>, <<"U+D81B", "U+DE78">>>>,
     <<<<"U+D81B", "U+DE59">>, <<"U+D81B", "U+DE79">>>>,
     <<<<"U+D81B", "U+DE5A">>, <<"U+D81B", "U+DE7A">>>>,
     <<<<"U+D81B", "U+DE5B">>, <<"U+D81B", "U+DE7B">>>>,
     <<<<"U+D81B", "U+DE5C">>, <<"U+D81B", "U+DE7C">>>>,
     <<<<"U+D81B", "U+DE5D">>, <<"U+D81B", "U+DE7D">>>>,
     <<<<"U+D81B", "U+DE5E">>, <<"U+D81B", "U+DE7E">>>>,
     <<<<"U+D81B", "U+DE5F">>, <<"U+D81B", "U+DE7F">>>>,
     <<<<"U+D81B", "U+DEA0">>, <<"U+D81B", "U+DEBB">>>>,
     <<<<"U+D81B", "U+DEA1">>, <<"U+D81B", "U+DEBC">>>>,
     <<<<"U+D81B", "U+DEA2">>, <<"U+D81B", "U+DEBD">>>>,
     <<<<"U+D81B", "U+DEA3">>, <<"U+D81B", "U+DEBE">>>>,
     <<<<"U+D81B", "U+DEA4">>, <<"U+D81B", "U+DEBF">>>>,
     <<<<"U+D81B", "U+DEA5">>, <<"U+D81B", "U+DEC0">>>>,
     <<<<"U+D81B", "U+DEA6">>, <<"U+D81B", "U+DEC1">>>>,
     <<<<"U+D81B", "U+DEA7">>, <<"U+D81B", "U+DEC2">>>>,
     <<<<"U+D81B", "U+DEA8">>, <<"U+D81B", "U+DEC3">>>>,
     <<<<"U+D81B", "U+DEA9">>, <<"U+D81B", "U+DEC4">>>>,
     <<<<"U+D81B", "U+DEAA">>, <<"U+D81B", "U+DEC5">>>>,
     <<<<"U+D81B", "U+DEAB">>, <<"U+D81B", "U+DEC6">>>>,
     <<<<"U+D81B", "U+DEAC">>, <<"U+D81B", "U+DEC7">>>>,
     <<<<"U+D81B", "U+DEAD">>, <<"U+D81B", "U+DEC8">>>>,
     <<<<"U+D81B", "U+DEAE">>, <<"U+D81B", "U+DEC9">>>>,
     <<<<"U+D81B", "U+DEAF">>, <<"U+D81B", "U+DECA">>>>,
     <<<<"U+D81B", "U+DEB0">>, <<"U+D81B", "U+DECB">>>>,
     <<<<"U+D81B", "U+DEB1">>, <<"U+D81B", "U+DECC">>>>,
     <<<<"U+D81B", "U+DEB2">>, <<"U+D81B", "U+DECD">>>>,
     <<<<"U+D81B", "U+DEB3">>, <<"U+D81B", "U+DECE">>>>,
     <<<<"U+D81B", "U+DEB4">>, <<"U+D81B", "U+DECF">>>>,
     <<<<"U+D81B", "U+DEB5">>, <<"U+D81B", "U+DED0">>>>,
     <<<<"U+D81B", "U+DEB6">>, <<"U+D81B", "U+DED1">>>>,
     <<<<"U+D81B", "U+DEB7">>, <<"U+D81B", "U+DED2">>>>,
     <<<<"U+D81B", "U+DEB8">>, <<"U+D81B", "U+DED3">>>>,
     <<<<"U+D83A", "U+DD00">>, <<"U+D83A", "U+DD22">>>>,
     <<<<"U+D83A", "U+DD01">>, <<"U+D83A", "U+DD23">>>>,
     <<<<"U+D83A", "U+DD02">>, <<"U+D83A", "U+DD24">>>>,
     <<<<"U+D83A", "U+DD03">>, <<"U+D83A", "U+DD25">>>>,
     <<<<"U+D83A", "U+DD04">>, <<"U+D83A", "U+DD26">>>>,
     <<<<"U+D83A", "U+DD05">>, <<"U+D83A", "U+DD27">>>>,
     <<<<"U+D83A", "U+DD06">>, <<"U+D83A", "U+DD28">>>>,
     <<<<"U+D83A", "U+DD07">>, <<"U+D83A", "U+DD29">>>>,
     <<<<"U+D83A", "U+DD08">>, <<"U+D83A", "U+DD2A">>>>,
     <<<<"U+D83A", "U+DD09">>, <<"U+D83A", "U+DD2B">>>>,
     <<<<"U+D83A", "U+DD0A">>, <<"U+D83A", "U+DD2C">>>>,
     <<<<"U+D83A", "U+DD0B">>, <<"U+D83A", "U+DD2D">>>>,
     <<<<"U+D83A", "U+DD0C">>, <<"U+D83A", "U+DD2E">>>>,
     <<<<"U+D83A", "U+DD0D">>, <<"U+D83A", "U+DD2F">>>>,
     <<<<"U+D83A", "U+DD0E">>, <<"U+D83A", "U+DD30">>>>,
     <<<<"U+D83A", "U+DD0F">>, <<"U+D83A", "U+DD31">>>>,
     <<<<"U+D83A", "U+DD10">>, <<"U+D83A", "U+DD32">>>>,
     <<<<"U+D83A", "U+DD11">>, <<"U+D83A", "U+DD33">>>>,
     <<<<"U+D83A", "U+DD12">>, <<"U+D83A", "U+DD34">>>>,
     <<<<"U+D83A", "U+DD13">>, <<"U+D83A", "U+DD35">>>>,
     <<<<"U+D83A", "U+DD14">>, <<"U+D83A", "U+DD36">>>>,
     <<<<"U+D83A", "U+DD15">>, <<"U+D83A", "U+DD37">>>>,
     <<<<"U+D83A", "U+DD16">>, <<"U+D83A", "U+DD38">>>>,
     <<<<"U+D83A", "U+DD17">>, <<"U+D83A", "U+DD39">>>>,
     <<<<"U+D83A", "U+DD18">>, <<"U+D83A", "U+DD3A">>>>,
     <<<<"U+D83A", "U+DD19">>, <<"U+D83A", "U+DD3B">>>>,
     <<<<"U+D83A", "U+DD1A">>, <<"U+D83A", "U+DD3C">>>>,
     <<<<"U+D83A", "U+DD1B">>, <<"U+D83A", "U+DD3D">>>>,
     <<<<"U+D83A", "U+DD1C">>, <<"U+D83A", "U+DD3E">>>>,
     <<<<"U+D83A", "U+DD1D">>, <<"U+D83A", "U+DD3F">>>>,
     <<<<"U+D83A", "U+DD1E">>, <<"U+D83A", "U+DD40">>>>,
     <<<<"U+D83A", "U+DD1F">>, <<"U+D83A", "U+DD41">>>>,
     <<<<"U+D83A", "U+DD20">>, <<"U+D83A", "U+DD42">>>>,
     <<<<"U+D83A", "U+DD21">>, <<"U+D83A", "U+DD43">>>>}

\* The cased letters (property Cased) that are not case-ignorable, of one code
\* unit.
CasedUnits ==
    {"A", "B", "C", "D", "E", "F", "G", "H", "I", "J", "K", "L", "M", "N", "O", "P", "Q", "R",
     "S", "T", "U", "V", "W", "X", "Y", "Z", "a", "b", "c", "d", "e", "f", "g", "h", "i", "j",
     "k", "l", "m", "n", "o", "p", "q", "r", "s", "t", "u", "v", "w", "x", "y", "z", "ª", "µ",
     "º", "À", "Á", "Â", "Ã", "Ä", "Å", "Æ", "Ç", "È", "É", "Ê", "Ë", "Ì", "Í", "Î", "Ï", "Ð",
     "Ñ", "Ò", "Ó", "Ô", "Õ", "Ö", "Ø", "Ù", "Ú", "Û", "Ü", "Ý", "Þ", "ß", "à", "á", "â", "ã",
     "ä", "å", "æ", "ç", "è", "é", "ê", "ë", "ì", "í", "î", "ï", "ð", "ñ", "ò", "ó", "ô", "õ",
     "ö", "ø", "ù", "ú", "û", "ü", "ý", "þ", "ÿ", "U+0100", "U+0101", "U+0102", "U+0103",
     "U+0104", "U+0105", "U+0106", "U+0107", "U+0108", "U+0109", "U+010A", "U+010B", "U+010C",
     "U+010D", "U+010E", "U+010F", "U+0110", "U+0111", "U+0112", "U+0113", "U+0114", "U+0115",
     "U+0116", "U+0117", "U+0118", "U+0119", "U+011A", "U+011B", "U+011C", "U+011D", "U+011E",
     "U+011F", "U+0120", "U+0121", "U+0122", "U+0123", "U+0124", "U+0125", "U+0126", "U+0127",
     "U+0128", "U+0129", "U+012A", "U+012B", "U+012C", "U+012D", "U+012E", "U+012F", "U+0130",
     "U+0131", "U+0132", "U+0133", "U+0134", "U+0135", "U+0136", "U+0137", "U+0138", "U+0139",
     "U+013A", "U+013B", "U+013C", "U+013D", "U+013E", "U+013F", "U+0140", "U+0141", "U+0142",
     "U+0143", "U+0144", "U+0145", "U+0146", "U+0147", "U+0148", "U+0149", "U+014A", "U+014B",
     "U+014C", "U+014D", "U+014E", "U+014F", "U+0150", "U+0151", "U+0152", "U+0153", "U+0154",
     "U+0155", "U+0156", "U+0157", "U+0158", "U+0159", "U+015A", "U+015B", "U+015C", "U+015D",
     "U+015E", "U+015F", "U+0160", "U+0161", "U+0162", "U+0163", "U+0164", "U+0165", "U+0166",
     "U+0167", "U+0168", "U+0169", "U+016A", "U+016B", "U+016C", "U+016D", "U+016E", "U+016F",
     "U+0170", "U+0171", "U+0172", "U+0173", "U+0174", "U+0175", "U+0176", "U+0177", "U+0178",
     "U+0179", "U+017A", "U+017B", "U+017C", "U+017D", "U+017E", "U+017F", "ƀ", "Ɓ", "Ƃ", "ƃ",
     "Ƅ", "ƅ", "Ɔ", "Ƈ", "ƈ", "Ɖ", "Ɗ", "Ƌ", "ƌ", "ƍ", "Ǝ", "Ə", "Ɛ", "Ƒ", "ƒ", "Ɠ", "Ɣ", "ƕ",
     "Ɩ", "Ɨ", "Ƙ", "ƙ", "ƚ", "ƛ", "Ɯ", "Ɲ", "ƞ", "Ɵ", "Ơ", "ơ", "Ƣ", "ƣ", "Ƥ", "ƥ", "Ʀ", "Ƨ",
     "ƨ", "Ʃ", "ƪ", "ƫ", "Ƭ", "ƭ", "Ʈ", "Ư", "ư", "Ʊ", "Ʋ", "Ƴ", "ƴ", "Ƶ", "ƶ", "Ʒ", "Ƹ", "ƹ",
     "ƺ", "Ƽ", "ƽ", "ƾ", "ƿ", "Ǆ", "ǅ", "ǆ", "Ǉ", "ǈ", "ǉ", "Ǌ", "ǋ", "ǌ", "Ǎ", "ǎ", "Ǐ", "ǐ",
     "Ǒ", "ǒ", "Ǔ", "ǔ", "Ǖ", "ǖ", "Ǘ", "ǘ", "Ǚ", "ǚ", "Ǜ", "ǜ", "ǝ", "Ǟ", "ǟ", "Ǡ", "ǡ", "Ǣ",
     "ǣ", "Ǥ", "ǥ", "Ǧ", "ǧ", "Ǩ", "ǩ", "Ǫ", "ǫ", "Ǭ", "ǭ", "Ǯ", "ǯ", "ǰ", "Ǳ", "ǲ", "ǳ", "Ǵ",
     "ǵ", "Ƕ", "Ƿ", "Ǹ", "ǹ", "Ǻ", "ǻ", "Ǽ", "ǽ", "Ǿ", "ǿ", "U+0200", "U+0201", "U+0202",
     "U+0203", "U+0204", "U+0205", "U+0206", "U+0207", "U+0208", "U+0209", "U+020A", "U+020B",
     "U+020C", "U+020D", "U+020E", "U+020F", "U+0210", "U+0211", "U+0212", "U+0213", "U+0214",
     "U+0215", "U+0216", "U+0217", "U+0218", "U+0219", "U+021A", "U+021B", "U+021C", "U+021D",
     "U+021E", "U+021F", "U+0220", "U+0221", "U+0222", "U+0223", "U+0224", "U+0225", "U+0226",
     "U+0227", "U+0228", "U+0229", "U+022A", "U+022B", "U+022C", "U+022D", "U+022E", "U+022F",
     "U+0230", "U+0231", "U+0232", "U+0233", "U+0234", "U+0235", "U+0236", "U+0237", "U+0238",
     "U+0239", "U+023A", "U+023B", "U+023C", "U+023D", "U+023E", "U+023F", "U+0240", "U+0241",
     "U+0242", "U+0243", "U+0244", "U+0245", "U+0246", "U+0247", "U+0248", "U+0249", "U+024A",
     "U+024B", "U+024C", "U+024D", "U+024E", "U+024F", "U+0250", "U+0251", "U+0252", "U+0253",
     "U+0254", "U+0255", "U+0256", "U+0257", "U+0258", "U+0259", "U+025A", "U+025B", "U+025C",
     "U+025D", "U+025E", "U+025F", "U+0260", "U+0261", "U+0262", "U+0263", "U+0264", "U+0265",
     "U+0266", "U+0267", "U+0268", "U+0269", "U+026A", "U+026B", "U+026C", "U+026D", "U+026E",
     "U+026F", "U+0270", "U+0271", "U+0272", "U+0273", "U+0274", "U+0275", "U+0276", "U+0277",
     "U+0278", "U+0279", "U+027A", "U+027B", "U+027C", "U+027D", "U+027E", "U+027F", "ʀ", "ʁ",
     "ʂ", "ʃ", "ʄ", "ʅ", "ʆ", "ʇ", "ʈ", "ʉ", "ʊ", "ʋ", "ʌ", "ʍ", "ʎ", "ʏ", "ʐ", "ʑ", "ʒ", "ʓ",
     "ʖ", "ʗ", "ʘ", "ʙ", "ʚ", "ʛ", "ʜ", "ʝ", "ʞ", "ʟ", "ʠ", "ʡ", "ʢ", "ʣ", "ʤ", "ʥ", "ʦ", "ʧ",
     "ʨ", "ʩ", "ʪ", "ʫ", "ʬ", "ʭ", "ʮ", "ʯ", "U+0370", "U+0371", "U+0372", "U+0373", "U+0376",
     "U+0377", "U+037B", "U+037C", "U+037D", "U+037F", "Ά", "Έ", "Ή", "Ί", "Ό", "Ύ", "Ώ", "ΐ",
     "Α", "Β", "Γ", "Δ", "Ε", "Ζ", "Η", "Θ", "Ι", "Κ", "Λ", "Μ", "Ν", "Ξ", "Ο", "Π", "Ρ", "Σ",
     "Τ", "Υ", "Φ", "Χ", "Ψ", "Ω", "Ϊ", "Ϋ", "ά", "έ", "ή", "ί", "ΰ", "α", "β", "γ", "δ", "ε",
     "ζ", "η", "θ", "ι", "κ", "λ", "μ", "ν", "ξ", "ο", "π", "ρ", "ς", "σ", "τ", "υ", "φ", "χ",
     "ψ", "ω", "ϊ", "ϋ", "ό", "ύ", "ώ", "Ϗ", "ϐ", "ϑ", "ϒ", "ϓ", "ϔ", "ϕ", "ϖ", "ϗ", "Ϙ", "ϙ",
     "Ϛ", "ϛ", "Ϝ", "ϝ", "Ϟ", "ϟ", "Ϡ", "ϡ", "Ϣ", "ϣ", "Ϥ", "ϥ", "Ϧ", "ϧ", "Ϩ", "ϩ", "Ϫ", "ϫ",
     "Ϭ", "ϭ", "Ϯ", "ϯ", "ϰ", "ϱ", "ϲ", "ϳ", "ϴ", "ϵ", "Ϸ", "ϸ", "Ϲ", "Ϻ", "ϻ", "ϼ", "Ͻ", "Ͼ",
     "Ͽ", "U+0400", "U+0401", "U+0402", "U+0403", "U+0404", "U+0405", "U+0406", "U+0407",
     "U+0408", "U+0409", "U+040A", "U+040B", "U+040C", "U+040D", "U+040E", "U+040F", "U+0410",
     "U+0411", "U+0412", "U+0413", "U+0414", "U+0415", "U+0416", "U+0417", "U+0418", "U+0419",
     "U+041A", "U+041B", "U+041C", "U+041D", "U+041E", "U+041F", "U+0420", "U+0421", "U+0422",
     "U+0423", "U+0424", "U+0425", "U+0426", "U+0427", "U+0428", "U+0429", "U+042A", "U+042B",
     "U+042C", "U+042D", "U+042E", "U+042F", "U+0430", "U+0431", "U+0432", "U+0433", "U+0434",
     "U+0435", "U+0436", "U+0437", "U+0438", "U+0439", "U+043A", "U+043B", "U+043C", "U+043D",
     "U+043E", "U+043F", "U+0440", "U+0441", "U+0442", "U+0443", "U+0444", "U+0445", "U+0446",
     "U+0447", "U+0448", "U+0449", "U+044A", "U+044B", "U+044C", "U+044D", "U+044E", "U+044F",
     "U+0450", "U+0451", "U+0452", "U+0453", "U+0454", "U+0455", "U+0456", "U+0457", "U+0458",
     "U+0459", "U+045A", "U+045B", "U+045C", "U+045D", "U+045E", "U+045F", "U+0460", "U+0461",
     "U+0462", "U+0463", "U+0464", "U+0465", "U+0466", "U+0467", "U+0468", "U+0469", "U+046A",
     "U+046B", "U+046C", "U+046D", "U+046E", "U+046F", "U+0470", "U+0471", "U+0472", "U+0473",
     "U+0474", "U+0475", "U+0476", "U+0477", "U+0478", "U+0479", "U+047A", "U+047B", "U+047C",
     "U+047D", "U+047E", "U+047F", "Ҁ", "ҁ", "Ҋ", "ҋ", "Ҍ", "ҍ", "Ҏ", "ҏ", "Ґ", "ґ", "Ғ", "ғ",
     "Ҕ", "ҕ", "Җ", "җ", "Ҙ", "ҙ", "Қ", "қ", "Ҝ", "ҝ", "Ҟ", "ҟ", "Ҡ", "ҡ", "Ң", "ң", "Ҥ", "ҥ",
     "Ҧ", "ҧ", "Ҩ", "ҩ", "Ҫ", "ҫ", "Ҭ", "ҭ", "Ү", "ү", "Ұ", "ұ", "Ҳ", "ҳ", "Ҵ", "ҵ", "Ҷ", "ҷ",
     "Ҹ", "ҹ", "Һ", "һ", "Ҽ", "ҽ", "Ҿ", "ҿ", "Ӏ", "Ӂ", "ӂ", "Ӄ", "ӄ", "Ӆ", "ӆ", "Ӈ", "ӈ", "Ӊ",
     "ӊ", "Ӌ", "ӌ", "Ӎ", "ӎ", "ӏ", "Ӑ", "ӑ", "Ӓ", "ӓ", "Ӕ", "ӕ", "Ӗ", "ӗ", "Ә", "ә", "Ӛ", "ӛ",
     "Ӝ", "ӝ", "Ӟ", "ӟ", "Ӡ", "ӡ", "Ӣ", "ӣ", "Ӥ", "ӥ", "Ӧ", "ӧ", "Ө", "ө", "Ӫ", "ӫ", "Ӭ", "ӭ",
     "Ӯ", "ӯ", "Ӱ", "ӱ", "Ӳ", "ӳ", "Ӵ", "ӵ", "Ӷ", "ӷ", "Ӹ", "ӹ", "Ӻ", "ӻ", "Ӽ", "ӽ", "Ӿ", "ӿ",
     "U+0500", "U+0501", "U+0502", "U+0503", "U+0504", "U+0505", "U+0506", "U+0507", "U+0508",
     "U+0509", "U+050A", "U+050B", "U+050C", "U+050D", "U+050E", "U+050F", "U+0510", "U+0511",
     "U+0512", "U+0513", "U+0514", "U+0515", "U+0516", "U+0517", "U+0518", "U+0519", "U+051A",
     "U+051B", "U+051C", "U+051D", "U+051E", "U+051F", "U+0520", "U+0521", "U+0522", "U+0523",
     "U+0524", "U+0525", "U+0526", "U+0527", "U+0528", "U+0529", "U+052A", "U+052B", "U+052C",
     "U+052D", "U+052E", "U+052F", "U+0531", "U+0532", "U+0533", "U+0534", "U+0535", "U+0536",
     "U+0537", "U+0538", "U+0539", "U+053A", "U+053B", "U+053C", "U+053D", "U+053E", "U+053F",
     "U+0540", "U+0541", "U+0542", "U+0543", "U+0544", "U+0545", "U+0546", "U+0547", "U+0548",
     "U+0549", "U+054A", "U+054B", "U+054C", "U+054D", "U+054E", "U+054F", "U+0550", "U+0551",
     "U+0552", "U+0553", "U+0554", "U+0555", "U+0556", "U+0560", "U+0561", "U+0562", "U+0563",
     "U+0564", "U+0565", "U+0566", "U+0567", "U+0568", "U+0569", "U+056A", "U+056B", "U+056C",
     "U+056D", "U+056E", "U+056F", "U+0570", "U+0571", "U+0572", "U+0573", "U+0574", "U+0575",
     "U+0576", "U+0577", "U+0578", "U+0579", "U+057A", "U+057B", "U+057C", "U+057D", "U+057E",
     "U+057F", "ր", "ց", "ւ", "փ", "ք", "օ", "ֆ", "և", "ֈ", "Ⴀ", "Ⴁ", "Ⴂ", "Ⴃ", "Ⴄ", "Ⴅ", "Ⴆ",
     "Ⴇ", "Ⴈ", "Ⴉ", "Ⴊ", "Ⴋ", "Ⴌ", "Ⴍ", "Ⴎ", "Ⴏ", "Ⴐ", "Ⴑ", "Ⴒ", "Ⴓ", "Ⴔ", "Ⴕ", "Ⴖ", "Ⴗ", "Ⴘ",
     "Ⴙ", "Ⴚ", "Ⴛ", "Ⴜ", "Ⴝ", "Ⴞ", "Ⴟ", "Ⴠ", "Ⴡ", "Ⴢ", "Ⴣ", "Ⴤ", "Ⴥ", "Ⴧ", "Ⴭ", "ა", "ბ", "გ",
     "დ", "ე", "ვ", "ზ", "თ", "ი", "კ", "ლ", "მ", "ნ", "ო", "პ", "ჟ", "რ", "ს", "ტ", "უ", "ფ",
     "ქ", "ღ", "ყ", "შ", "ჩ", "ც", "ძ", "წ", "ჭ", "ხ", "ჯ", "ჰ", "ჱ", "ჲ", "ჳ", "ჴ", "ჵ", "ჶ",
     "ჷ", "ჸ", "ჹ", "ჺ", "ჽ", "ჾ", "ჿ", "Ꭰ", "Ꭱ", "Ꭲ", "Ꭳ", "Ꭴ", "Ꭵ", "Ꭶ", "Ꭷ", "Ꭸ", "Ꭹ", "Ꭺ",
     "Ꭻ", "Ꭼ", "Ꭽ", "Ꭾ", "Ꭿ", "Ꮀ", "Ꮁ", "Ꮂ", "Ꮃ", "Ꮄ", "Ꮅ", "Ꮆ", "Ꮇ", "Ꮈ", "Ꮉ", "Ꮊ", "Ꮋ", "Ꮌ",
     "Ꮍ", "Ꮎ", "Ꮏ", "Ꮐ", "Ꮑ", "Ꮒ", "Ꮓ", "Ꮔ", "Ꮕ", "Ꮖ", "Ꮗ", "Ꮘ", "Ꮙ", "Ꮚ", "Ꮛ", "Ꮜ", "Ꮝ", "Ꮞ",
     "Ꮟ", "Ꮠ", "Ꮡ", "Ꮢ", "Ꮣ", "Ꮤ", "Ꮥ", "Ꮦ", "Ꮧ", "Ꮨ", "Ꮩ", "Ꮪ", "Ꮫ", "Ꮬ", "Ꮭ", "Ꮮ", "Ꮯ", "Ꮰ",
     "Ꮱ", "Ꮲ", "Ꮳ", "Ꮴ", "Ꮵ", "Ꮶ", "Ꮷ", "Ꮸ", "Ꮹ", "Ꮺ", "Ꮻ", "Ꮼ", "Ꮽ", "Ꮾ", "Ꮿ", "Ᏸ", "Ᏹ", "Ᏺ",
     "Ᏻ", "Ᏼ", "Ᏽ", "ᏸ", "ᏹ", "ᏺ", "ᏻ", "ᏼ", "ᏽ", "ᲀ", "ᲁ", "ᲂ", "ᲃ", "ᲄ", "ᲅ", "ᲆ", "ᲇ", "ᲈ",
     "Ᲊ", "ᲊ", "Ა", "Ბ", "Გ", "Დ", "Ე", "Ვ", "Ზ", "Თ", "Ი", "Კ", "Ლ", "Მ", "Ნ", "Ო", "Პ", "Ჟ",
     "Რ", "Ს", "Ტ", "Უ", "Ფ", "Ქ", "Ღ", "Ყ", "Შ", "Ჩ", "Ც", "Ძ", "Წ", "Ჭ", "Ხ", "Ჯ", "Ჰ", "Ჱ",
     "Ჲ", "Ჳ", "Ჴ", "Ჵ", "Ჶ", "Ჷ", "Ჸ", "Ჹ", "Ჺ", "Ჽ", "Ჾ", "Ჿ", "U+1D00", "U+1D01", "U+1D02",
     "U+1D03", "U+1D04", "U+1D05", "U+1D06", "U+1D07", "U+1D08", "U+1D09", "U+1D0A", "U+1D0B",
     "U+1D0C", "U+1D0D", "U+1D0E", "U+1D0F", "U+1D10", "U+1D11", "U+1D12", "U+1D13", "U+1D14",
     "U+1D15", "U+1D16", "U+1D17", "U+1D18", "U+1D19", "U+1D1A", "U+1D1B", "U+1D1C", "U+1D1D",
     "U+1D1E", "U+1D1F", "U+1D20", "U+1D21", "U+1D22", "U+1D23", "U+1D24", "U+1D25", "U+1D26",
     "U+1D27", "U+1D28", "U+1D29", "U+1D2A", "U+1D2B", "U+1D6B", "U+1D6C", "U+1D6D", "U+1D6E",
     "U+1D6F", "U+1D70", "U+1D71", "U+1D72", "U+1D73", "U+1D74", "U+1D75", "U+1D76", "U+1D77",
     "U+1D79", "U+1D7A", "U+1D7B", "U+1D7C", "U+1D7D", "U+1D7E", "U+1D7F", "ᶀ", "ᶁ", "ᶂ", "ᶃ",
     "ᶄ", "ᶅ", "ᶆ", "ᶇ", "ᶈ", "ᶉ", "ᶊ", "ᶋ", "ᶌ", "ᶍ", "ᶎ", "ᶏ", "ᶐ", "ᶑ", "ᶒ", "ᶓ", "ᶔ", "ᶕ",
     "ᶖ", "ᶗ", "ᶘ", "ᶙ", "ᶚ", "U+1E00", "U+1E01", "U+1E02", "U+1E03", "U+1E04", "U+1E05",
     "U+1E06", "U+1E07", "U+1E08", "U+1E09", "U+1E0A", "U+1E0B", "U+1E0C", "U+1E0D", "U+1E0E",
     "U+1E0F", "U+1E10", "U+1E11", "U+1E12", "U+1E13", "U+1E14", "U+1E15", "U+1E16", "U+1E17",
     "U+1E18", "U+1E19", "U+1E1A", "U+1E1B", "U+1E1C", "U+1E1D", "U+1E1E", "U+1E1F", "U+1E20",
     "U+1E21", "U+1E22", "U+1E23", "U+1E24", "U+1E25", "U+1E26", "U+1E27", "U+1E28", "U+1E29",
     "U+1E2A", "U+1E2B", "U+1E2C", "U+1E2D", "U+1E2E", "U+1E2F", "U+1E30", "U+1E31", "U+1E32",
     "U+1E33", "U+1E34", "U+1E35", "U+1E36", "U+1E37", "U+1E38", "U+1E39", "U+1E3A", "U+1E3B",
     "U+1E3C", "U+1E3D", "U+1E3E", "U+1E3F", "U+1E40", "U+1E41", "U+1E42", "U+1E43", "U+1E44",
     "U+1E45", "U+1E46", "U+1E47", "U+1E48", "U+1E49", "U+1E4A", "U+1E4B", "U+1E4C", "U+1E4D",
     "U+1E4E", "U+1E4F", "U+1E50", "U+1E51", "U+1E52", "U+1E53", "U+1E54", "U+1E55", "U+1E56",
     "U+1E57", "U+1E58", "U+1E59", "U+1E5A", "U+1E5B", "U+1E5C", "U+1E5D", "U+1E5E", "U+1E5F",
     "U+1E60", "U+1E61", "U+1E62", "U+1E63", "U+1E64", "U+1E65", "U+1E66", "U+1E67", "U+1E68",
     "U+1E69", "U+1E6A", "U+1E6B", "U+1E6C", "U+1E6D", "U+1E6E", "U+1E6F", "U+1E70", "U+1E71",
     "U+1E72", "U+1E73", "U+1E74", "U+1E75", "U+1E76", "U+1E77", "U+1E78", "U+1E79", "U+1E7A",
     "U+1E7B", "U+1E7C", "U+1E7D", "U+1E7E", "U+1E7F", "Ẁ", "ẁ", "Ẃ", "ẃ", "Ẅ", "ẅ", "Ẇ", "ẇ",
     "Ẉ", "ẉ", "Ẋ", "ẋ", "Ẍ", "ẍ", "Ẏ", "ẏ", "Ẑ", "ẑ", "Ẓ", "ẓ", "Ẕ", "ẕ", "ẖ", "ẗ", "ẘ", "ẙ",
     "ẚ", "ẛ", "ẜ", "ẝ", "ẞ", "ẟ", "Ạ", "ạ", "Ả", "ả", "Ấ", "ấ", "Ầ", "ầ", "Ẩ", "ẩ", "Ẫ", "ẫ",
     "Ậ", "ậ", "Ắ", "ắ", "Ằ", "ằ", "Ẳ", "ẳ", "Ẵ", "ẵ", "Ặ", "ặ", "Ẹ", "ẹ", "Ẻ", "ẻ", "Ẽ", "ẽ",
     "Ế", "ế", "Ề", "ề", "Ể", "ể", "Ễ", "ễ", "Ệ", "ệ", "Ỉ", "ỉ", "Ị", "ị", "Ọ", "ọ", "Ỏ", "ỏ",
     "Ố", "ố", "Ồ", "ồ", "Ổ", "ổ", "Ỗ", "ỗ", "Ộ", "ộ", "Ớ", "ớ", "Ờ", "ờ", "Ở", "ở", "Ỡ", "ỡ",
     "Ợ", "ợ", "Ụ", "ụ", "Ủ", "ủ", "Ứ", "ứ", "Ừ", "ừ", "Ử", "ử", "Ữ", "ữ", "Ự", "ự", "Ỳ", "ỳ",
     "Ỵ", "ỵ", "Ỷ", "ỷ", "Ỹ", "ỹ", "Ỻ", "ỻ", "Ỽ", "ỽ", "Ỿ", "ỿ", "U+1F00", "U+1F01", "U+1F02",
     "U+1F03", "U+1F04", "U+1F05", "U+1F06", "U+1F07", "U+1F08", "U+1F09", "U+1F0A", "U+1F0B",
     "U+1F0C", "U+1F0D", "U+1F0E", "U+1F0F", "U+1F10", "U+1F11", "U+1F12", "U+1F13", "U+1F14",
     "U+1F15", "U+1F18", "U+1F19", "U+1F1A", "U+1F1B", "U+1F1C", "U+1F1D", "U+1F20", "U+1F21",
     "U+1F22", "U+1F23", "U+1F24", "U+1F25", "U+1F26", "U+1F27", "U+1F28", "U+1F29", "U+1F2A",
     "U+1F2B", "U+1F2C", "U+1F2D", "U+1F2E", "U+1F2F", "U+1F30", "U+1F31", "U+1F32", "U+1F33",
     "U+1F34", "U+1F35", "U+1F36", "U+1F37", "U+1F38", "U+1F39", "U+1F3A", "U+1F3B", "U+1F3C",
     "U+1F3D", "U+1F3E", "U+1F3F", "U+1F40", "U+1F41", "U+1F42", "U+1F43", "U+1F44", "U+1F45",
     "U+1F48", "U+1F49", "U+1F4A", "U+1F4B", "U+1F4C", "U+1F4D", "U+1F50", "U+1F51", "U+1F52",
     "U+1F53", "U+1F54", "U+1F55", "U+1F56", "U+1F57", "U+1F59", "U+1F5B", "U+1F5D", "U+1F5F",
     "U+1F60", "U+1F61", "U+1F62", "U+1F63", "U+1F64", "U+1F65", "U+1F66", "U+1F67", "U+1F68",
     "U+1F69", "U+1F6A", "U+1F6B", "U+1F6C", "U+1F6D", "U+1F6E", "U+1F6F", "U+1F70", "U+1F71",
     "U+1F72", "U+1F73", "U+1F74", "U+1F75", "U+1F76", "U+1F77", "U+1F78", "U+1F79", "U+1F7A",
     "U+1F7B", "U+1F7C", "U+1F7D", "ᾀ", "ᾁ", "ᾂ", "ᾃ", "ᾄ", "ᾅ", "ᾆ", "ᾇ", "ᾈ", "ᾉ", "ᾊ", "ᾋ",
     "ᾌ", "ᾍ", "ᾎ", "ᾏ", "ᾐ", "ᾑ", "ᾒ", "ᾓ", "ᾔ", "ᾕ", "ᾖ", "ᾗ", "ᾘ", "ᾙ", "ᾚ", "ᾛ", "ᾜ", "ᾝ",
     "ᾞ", "ᾟ", "ᾠ", "ᾡ", "ᾢ", "ᾣ", "ᾤ", "ᾥ", "ᾦ", "ᾧ", "ᾨ", "ᾩ", "ᾪ", "ᾫ", "ᾬ", "ᾭ", "ᾮ", "ᾯ",
     "ᾰ", "ᾱ", "ᾲ", "ᾳ", "ᾴ", "ᾶ", "ᾷ", "Ᾰ", "Ᾱ", "Ὰ", "Ά", "ᾼ", "ι", "ῂ", "ῃ", "ῄ", "ῆ", "ῇ",
     "Ὲ", "Έ", "Ὴ", "Ή", "ῌ", "ῐ", "ῑ", "ῒ", "ΐ", "ῖ", "ῗ", "Ῐ", "Ῑ", "Ὶ", "Ί", "ῠ", "ῡ", "ῢ",
     "ΰ", "ῤ", "ῥ", "ῦ", "ῧ", "Ῠ", "Ῡ", "Ὺ", "Ύ", "Ῥ", "ῲ", "ῳ", "ῴ", "ῶ", "ῷ", "Ὸ", "Ό", "Ὼ",
     "Ώ", "ῼ", "U+2102", "U+2107", "U+210A", "U+210B", "U+210C", "U+210D", "U+210E", "U+210F",
     "U+2110", "U+2111", "U+2112", "U+2113", "U+2115", "U+2119", "U+211A", "U+211B", "U+211C",
     "U+211D", "U+2124", "U+2126", "U+2128", "U+212A", "U+212B", "U+212C", "U+212D", "U+212F",
     "U+2130", "U+2131", "U+2132", "U+2133", "U+2134", "U+2139", "U+213C", "U+213D", "U+213E",
     "U+213F", "U+2145", "U+2146", "U+2147", "U+2148", "U+2149", "U+214E", "U+2160", "U+2161",
     "U+2162", "U+2163", "U+2164", "U+2165", "U+2166", "U+2167", "U+2168", "U+2169", "U+216A",
     "U+216B", "U+216C", "U+216D", "U+216E", "U+216F", "U+2170", "U+2171", "U+2172", "U+2173",
     "U+2174", "U+2175", "U+2176", "U+2177", "U+2178", "U+2179", "U+217A", "U+217B", "U+217C",
     "U+217D", "U+217E", "U+217F", "Ↄ", "ↄ", "Ⓐ", "Ⓑ", "Ⓒ", "Ⓓ", "Ⓔ", "Ⓕ", "Ⓖ", "Ⓗ", "Ⓘ", "Ⓙ",
     "Ⓚ", "Ⓛ", "Ⓜ", "Ⓝ", "Ⓞ", "Ⓟ", "Ⓠ", "Ⓡ", "Ⓢ", "Ⓣ", "Ⓤ", "Ⓥ", "Ⓦ", "Ⓧ", "Ⓨ", "Ⓩ", "ⓐ", "ⓑ",
     "ⓒ", "ⓓ", "ⓔ", "ⓕ", "ⓖ", "ⓗ", "ⓘ", "ⓙ", "ⓚ", "ⓛ", "ⓜ", "ⓝ", "ⓞ", "ⓟ", "ⓠ", "ⓡ", "ⓢ", "ⓣ",
     "ⓤ", "ⓥ", "ⓦ", "ⓧ", "ⓨ", "ⓩ", "U+2C00", "U+2C01", "U+2C02", "U+2C03", "U+2C04", "U+2C05",
     "U+2C06", "U+2C07", "U+2C08", "U+2C09", "U+2C0A", "U+2C0B", "U+2C0C", "U+2C0D", "U+2C0E",
     "U+2C0F", "U+2C10", "U+2C11", "U+2C12", "U+2C13", "U+2C14", "U+2C15", "U+2C16", "U+2C17",
     "U+2C18", "U+2C19", "U+2C1A", "U+2C1B", "U+2C1C", "U+2C1D", "U+2C1E", "U+2C1F", "U+2C20",
     "U+2C21", "U+2C22", "U+2C23", "U+2C24", "U+2C25", "U+2C26", "U+2C27", "U+2C28", "U+2C29",
     "U+2C2A", "U+2C2B", "U+2C2C", "U+2C2D", "U+2C2E", "U+2C2F", "U+2C30", "U+2C31", "U+2C32",
     "U+2C33", "U+2C34", "U+2C35", "U+2C36", "U+2C37", "U+2C38", "U+2C39", "U+2C3A", "U+2C3B",
     "U+2C3C", "U+2C3D", "U+2C3E", "U+2C3F", "U+2C40", "U+2C41", "U+2C42", "U+2C43", "U+2C44",
     "U+2C45", "U+2C46", "U+2C47", "U+2C48", "U+2C49", "U+2C4A", "U+2C4B", "U+2C4C", "U+2C4D",
     "U+2C4E", "U+2C4F", "U+2C50", "U+2C51", "U+2C52", "U+2C53", "U+2C54", "U+2C55", "U+2C56",
     "U+2C57", "U+2C58", "U+2C59", "U+2C5A", "U+2C5B", "U+2C5C", "U+2C5D", "U+2C5E", "U+2C5F",
     "U+2C60", "U+2C61", "U+2C62", "U+2C63", "U+2C64", "U+2C65", "U+2C66", "U+2C67", "U+2C68",
     "U+2C69", "U+2C6A", "U+2C6B", "U+2C6C", "U+2C6D", "U+2C6E", "U+2C6F", "U+2C70", "U+2C71",
     "U+2C72", "U+2C73", "U+2C74", "U+2C75", "U+2C76", "U+2C77", "U+2C78", "U+2C79", "U+2C7A",
     "U+2C7B", "U+2C7E", "U+2C7F", "Ⲁ", "ⲁ", "Ⲃ", "ⲃ", "Ⲅ", "ⲅ", "Ⲇ", "ⲇ", "Ⲉ", "ⲉ", "Ⲋ", "ⲋ",
     "Ⲍ", "ⲍ", "Ⲏ", "ⲏ", "Ⲑ", "ⲑ", "Ⲓ", "ⲓ", "Ⲕ", "ⲕ", "Ⲗ", "ⲗ", "Ⲙ", "ⲙ", "Ⲛ", "ⲛ", "Ⲝ", "ⲝ",
     "Ⲟ", "ⲟ", "Ⲡ", "ⲡ", "Ⲣ", "ⲣ", "Ⲥ", "ⲥ", "Ⲧ", "ⲧ", "Ⲩ", "ⲩ", "Ⲫ", "ⲫ", "Ⲭ", "ⲭ", "Ⲯ", "ⲯ",
     "Ⲱ", "ⲱ", "Ⲳ", "ⲳ", "Ⲵ", "ⲵ", "Ⲷ", "ⲷ", "Ⲹ", "ⲹ", "Ⲻ", "ⲻ", "Ⲽ", "ⲽ", "Ⲿ", "ⲿ", "Ⳁ", "ⳁ",
     "Ⳃ", "ⳃ", "Ⳅ", "ⳅ", "Ⳇ", "ⳇ", "Ⳉ", "ⳉ", "Ⳋ", "ⳋ", "Ⳍ", "ⳍ", "Ⳏ", "ⳏ", "Ⳑ", "ⳑ", "Ⳓ", "ⳓ",
     "Ⳕ", "ⳕ", "Ⳗ", "ⳗ", "Ⳙ", "ⳙ", "Ⳛ", "ⳛ", "Ⳝ", "ⳝ", "Ⳟ", "ⳟ", "Ⳡ", "ⳡ", "Ⳣ", "ⳣ", "ⳤ", "Ⳬ",
     "ⳬ", "Ⳮ", "ⳮ", "Ⳳ", "ⳳ", "U+2D00", "U+2D01", "U+2D02", "U+2D03", "U+2D04", "U+2D05",
     "U+2D06", "U+2D07", "U+2D08", "U+2D09", "U+2D0A", "U+2D0B", "U+2D0C", "U+2D0D", "U+2D0E",
     "U+2D0F", "U+2D10", "U+2D11", "U+2D12", "U+2D13", "U+2D14", "U+2D15", "U+2D16", "U+2D17",
     "U+2D18", "U+2D19", "U+2D1A", "U+2D1B", "U+2D1C", "U+2D1D", "U+2D1E", "U+2D1F", "U+2D20",
     "U+2D21", "U+2D22", "U+2D23", "U+2D24", "U+2D25", "U+2D27", "U+2D2D", "U+A640", "U+A641",
     "U+A642", "U+A643", "U+A644", "U+A645", "U+A646", "U+A647", "U+A648", "U+A649", "U+A64A",
     "U+A64B", "U+A64C", "U+A64D", "U+A64E", "U+A64F", "U+A650", "U+A651", "U+A652", "U+A653",
     "U+A654", "U+A655", "U+A656", "U+A657", "U+A658", "U+A659", "U+A65A", "U+A65B", "U+A65C",
     "U+A65D", "U+A65E", "U+A65F", "U+A660", "U+A661", "U+A662", "U+A663", "U+A664", "U+A665",
     "U+A666", "U+A667", "U+A668", "U+A669", "U+A66A", "U+A66B", "U+A66C", "U+A66D", "Ꚁ", "ꚁ",
     "Ꚃ", "ꚃ", "Ꚅ", "ꚅ", "Ꚇ", "ꚇ", "Ꚉ", "ꚉ", "Ꚋ", "ꚋ", "Ꚍ", "ꚍ", "Ꚏ", "ꚏ", "Ꚑ", "ꚑ", "Ꚓ", "ꚓ",
     "Ꚕ", "ꚕ", "Ꚗ", "ꚗ", "Ꚙ", "ꚙ", "Ꚛ", "ꚛ", "U+A722", "U+A723", "U+A724", "U+A725", "U+A726",
     "U+A727", "U+A728", "U+A729", "U+A72A", "U+A72B", "U+A72C", "U+A72D", "U+A72E", "U+A72F",
     "U+A730", "U+A731", "U+A732", "U+A733", "U+A734", "U+A735", "U+A736", "U+A737", "U+A738",
     "U+A739", "U+A73A", "U+A73B", "U+A73C", "U+A73D", "U+A73E", "U+A73F", "U+A740", "U+A741",
     "U+A742", "U+A743", "U+A744", "U+A745", "U+A746", "U+A747", "U+A748", "U+A749", "U+A74A",
     "U+A74B", "U+A74C", "U+A74D", "U+A74E", "U+A74F", "U+A750", "U+A751", "U+A752", "U+A753",
     "U+A754", "U+A755", "U+A756", "U+A757", "U+A758", "U+A759", "U+A75A", "U+A75B", "U+A75C",
     "U+A75D", "U+A75E", "U+A75F", "U+A760", "U+A761", "U+A762", "U+A763", "U+A764", "U+A765",
     "U+A766", "U+A767", "U+A768", "U+A769", "U+A76A", "U+A76B", "U+A76C", "U+A76D", "U+A76E",
     "U+A76F", "U+A771", "U+A772", "U+A773", "U+A774", "U+A775", "U+A776", "U+A777", "U+A778",
     "U+A779", "U+A77A", "U+A77B", "U+A77C", "U+A77D", "U+A77E", "U+A77F", "Ꞁ", "ꞁ", "Ꞃ", "ꞃ",
     "Ꞅ", "ꞅ", "Ꞇ", "ꞇ", "Ꞌ", "ꞌ", "Ɥ", "ꞎ", "Ꞑ", "ꞑ", "Ꞓ", "ꞓ", "ꞔ", "ꞕ", "Ꞗ", "ꞗ", "Ꞙ", "ꞙ",
     "Ꞛ", "ꞛ", "Ꞝ", "ꞝ", "Ꞟ", "ꞟ", "Ꞡ", "ꞡ", "Ꞣ", "ꞣ", "Ꞥ", "ꞥ", "Ꞧ", "ꞧ", "Ꞩ", "ꞩ", "Ɦ", "Ɜ",
     "Ɡ", "Ɬ", "Ɪ", "ꞯ", "Ʞ", "Ʇ", "Ʝ", "Ꭓ", "Ꞵ", "ꞵ", "Ꞷ", "ꞷ", "Ꞹ", "ꞹ", "Ꞻ", "ꞻ", "Ꞽ", "ꞽ",
     "Ꞿ", "ꞿ", "Ꟁ", "ꟁ", "Ꟃ", "ꟃ", "Ꞔ", "Ʂ", "Ᶎ", "Ꟈ", "ꟈ", "Ꟊ", "ꟊ", "Ɤ", "Ꟍ", "ꟍ", "꟎", "꟏",
     "Ꟑ", "ꟑ", "꟒", "ꟓ", "꟔", "ꟕ", "Ꟗ", "ꟗ", "Ꟙ", "ꟙ", "Ꟛ", "ꟛ", "Ƛ", "Ꟶ", "ꟶ", "ꟺ", "U+AB30",
     "U+AB31", "U+AB32", "U+AB33", "U+AB34", "U+AB35", "U+AB36", "U+AB37", "U+AB38", "U+AB39",
     "U+AB3A", "U+AB3B", "U+AB3C", "U+AB3D", "U+AB3E", "U+AB3F", "U+AB40", "U+AB41", "U+AB42",
     "U+AB43", "U+AB44", "U+AB45", "U+AB46", "U+AB47", "U+AB48", "U+AB49", "U+AB4A", "U+AB4B",
     "U+AB4C", "U+AB4D", "U+AB4E", "U+AB4F", "U+AB50", "U+AB51", "U+AB52", "U+AB53", "U+AB54",
     "U+AB55", "U+AB56", "U+AB57", "U+AB58", "U+AB59", "U+AB5A", "U+AB60", "U+AB61", "U+AB62",
     "U+AB63", "U+AB64", "U+AB65", "U+AB66", "U+AB67", "U+AB68", "U+AB70", "U+AB71", "U+AB72",
     "U+AB73", "U+AB74", "U+AB75", "U+AB76", "U+AB77", "U+AB78", "U+AB79", "U+AB7A", "U+AB7B",
     "U+AB7C", "U+AB7D", "U+AB7E", "U+AB7F", "ꮀ", "ꮁ", "ꮂ", "ꮃ", "ꮄ", "ꮅ", "ꮆ", "ꮇ", "ꮈ", "ꮉ",
     "ꮊ", "ꮋ", "ꮌ", "ꮍ", "ꮎ", "ꮏ", "ꮐ", "ꮑ", "ꮒ", "ꮓ", "ꮔ", "ꮕ", "ꮖ", "ꮗ", "ꮘ", "ꮙ", "ꮚ", "ꮛ",
     "ꮜ", "ꮝ", "ꮞ", "ꮟ", "ꮠ", "ꮡ", "ꮢ", "ꮣ", "ꮤ", "ꮥ", "ꮦ", "ꮧ", "ꮨ", "ꮩ", "ꮪ", "ꮫ", "ꮬ", "ꮭ",
     "ꮮ", "ꮯ", "ꮰ", "ꮱ", "ꮲ", "ꮳ", "ꮴ", "ꮵ", "ꮶ", "ꮷ", "ꮸ", "ꮹ", "ꮺ", "ꮻ", "ꮼ", "ꮽ", "ꮾ", "ꮿ",
     "U+FB00", "U+FB01", "U+FB02", "U+FB03", "U+FB04", "U+FB05", "U+FB06", "U+FB13", "U+FB14",
     "U+FB15", "U+FB16", "U+FB17", "U+FF21", "U+FF22", "U+FF23", "U+FF24", "U+FF25", "U+FF26",
     "U+FF27", "U+FF28", "U+FF29", "U+FF2A", "U+FF2B", "U+FF2C", "U+FF2D", "U+FF2E", "U+FF2F",
     "U+FF30", "U+FF31", "U+FF32", "U+FF33", "U+FF34", "U+FF35", "U+FF36", "U+FF37", "U+FF38",
     "U+FF39", "U+FF3A", "U+FF41", "U+FF42", "U+FF43", "U+FF44", "U+FF45", "U+FF46", "U+FF47",
     "U+FF48", "U+FF49", "U+FF4A", "U+FF4B", "U+FF4C", "U+FF4D", "U+FF4E", "U+FF4F", "U+FF50",
     "U+FF51", "U+FF52", "U+FF53", "U+FF54", "U+FF55", "U+FF56", "U+FF57", "U+FF58", "U+FF59",
     "U+FF5A"}

\* The same, written as a surrogate pair: cased and not case-ignorable.
CasedSurrogatePairs ==
    ({"U+D801"} \X
        {"U+DC00", "U+DC01", "U+DC02", "U+DC03", "U+DC04", "U+DC05", "U+DC06", "U+DC07",
         "U+DC08", "U+DC09", "U+DC0A", "U+DC0B", "U+DC0C", "U+DC0D", "U+DC0E", "U+DC0F",
         "U+DC10", "U+DC11", "U+DC12", "U+DC13", "U+DC14", "U+DC15", "U+DC16", "U+DC17",
         "U+DC18", "U+DC19", "U+DC1A", "U+DC1B", "U+DC1C", "U+DC1D", "U+DC1E", "U+DC1F",
         "U+DC20", "U+DC21", "U+DC22", "U+DC23", "U+DC24", "U+DC25", "U+DC26", "U+DC27",
         "U+DC28", "U+DC29", "U+DC2A", "U+DC2B", "U+DC2C", "U+DC2D", "U+DC2E", "U+DC2F",
         "U+DC30", "U+DC31", "U+DC32", "U+DC33", "U+DC34", "U+DC35", "U+DC36", "U+DC37",
         "U+DC38", "U+DC39", "U+DC3A", "U+DC3B", "U+DC3C", "U+DC3D", "U+DC3E", "U+DC3F",
         "U+DC40", "U+DC41", "U+DC42", "U+DC43", "U+DC44", "U+DC45", "U+DC46", "U+DC47",
         "U+DC48", "U+DC49", "U+DC4A", "U+DC4B", "U+DC4C", "U+DC4D", "U+DC4E", "U+DC4F",
         "U+DCB0", "U+DCB1", "U+DCB2", "U+DCB3", "U+DCB4", "U+DCB5", "U+DCB6", "U+DCB7",
         "U+DCB8", "U+DCB9", "U+DCBA", "U+DCBB", "U+DCBC", "U+DCBD", "U+DCBE", "U+DCBF",
         "U+DCC0", "U+DCC1", "U+DCC2", "U+DCC3", "U+DCC4", "U+DCC5", "U+DCC6", "U+DCC7",
         "U+DCC8", "U+DCC9", "U+DCCA", "U+DCCB", "U+DCCC", "U+DCCD", "U+DCCE", "U+DCCF",
         "U+DCD0", "U+DCD1", "U+DCD2", "U+DCD3", "U+DCD8", "U+DCD9", "U+DCDA", "U+DCDB",
         "U+DCDC", "U+DCDD", "U+DCDE", "U+DCDF", "U+DCE0", "U+DCE1", "U+DCE2", "U+DCE3",
         "U+DCE4", "U+DCE5", "U+DCE6", "U+DCE7", "U+DCE8", "U+DCE9", "U+DCEA", "U+DCEB",
         "U+DCEC", "U+DCED", "U+DCEE", "U+DCEF", "U+DCF0", "U+DCF1", "U+DCF2", "U+DCF3",
         "U+DCF4", "U+DCF5", "U+DCF6", "U+DCF7", "U+DCF8", "U+DCF9", "U+DCFA", "U+DCFB",
         "U+DD70", "U+DD71", "U+DD72", "U+DD73", "U+DD74", "U+DD75", "U+DD76", "U+DD77",
         "U+DD78", "U+DD79", "U+DD7A", "U+DD7C", "U+DD7D", "U+DD7E", "U+DD7F", "U+DD80",
         "U+DD81", "U+DD82", "U+DD83", "U+DD84", "U+DD85", "U+DD86", "U+DD87", "U+DD88",
         "U+DD89", "U+DD8A", "U+DD8C", "U+DD8D", "U+DD8E", "U+DD8F", "U+DD90", "U+DD91",
         "U+DD92", "U+DD94", "U+DD95", "U+DD97", "U+DD98", "U+DD99", "U+DD9A", "U+DD9B",
         "U+DD9C", "U+DD9D", "U+DD9E", "U+DD9F", "U+DDA0", "U+DDA1", "U+DDA3", "U+DDA4",
         "U+DDA5", "U+DDA6", "U+DDA7", "U+DDA8", "U+DDA9", "U+DDAA", "U+DDAB", "U+DDAC",
         "U+DDAD", "U+DDAE", "U+DDAF", "U+DDB0", "U+DDB1", "U+DDB3", "U+DDB4", "U+DDB5",
         "U+DDB6", "U+DDB7", "U+DDB8", "U+DDB9", "U+DDBB", "U+DDBC"})
    \cup ({"U+D803"} \X
        {"U+DC80", "U+DC81", "U+DC82", "U+DC83", "U+DC84", "U+DC85", "U+DC86", "U+DC87",
         "U+DC88", "U+DC89", "U+DC8A", "U+DC8B", "U+DC8C", "U+DC8D", "U+DC8E", "U+DC8F",
         "U+DC90", "U+DC91", "U+DC92", "U+DC93", "U+DC94", "U+DC95", "U+DC96", "U+DC97",
         "U+DC98", "U+DC99", "U+DC9A", "U+DC9B", "U+DC9C", "U+DC9D", "U+DC9E", "U+DC9F",
         "U+DCA0", "U+DCA1", "U+DCA2", "U+DCA3", "U+DCA4", "U+DCA5", "U+DCA6", "U+DCA7",
         "U+DCA8", "U+DCA9", "U+DCAA", "U+DCAB", "U+DCAC", "U+DCAD", "U+DCAE", "U+DCAF",
         "U+DCB0", "U+DCB1", "U+DCB2", "U+DCC0", "U+DCC1", "U+DCC2", "U+DCC3", "U+DCC4",
         "U+DCC5", "U+DCC6", "U+DCC7", "U+DCC8", "U+DCC9", "U+DCCA", "U+DCCB", "U+DCCC",
         "U+DCCD", "U+DCCE", "U+DCCF", "U+DCD0", "U+DCD1", "U+DCD2", "U+DCD3", "U+DCD4",
         "U+DCD5", "U+DCD6", "U+DCD7", "U+DCD8", "U+DCD9", "U+DCDA", "U+DCDB", "U+DCDC",
         "U+DCDD", "U+DCDE", "U+DCDF", "U+DCE0", "U+DCE1", "U+DCE2", "U+DCE3", "U+DCE4",
         "U+DCE5", "U+DCE6", "U+DCE7", "U+DCE8", "U+DCE9", "U+DCEA", "U+DCEB", "U+DCEC",
         "U+DCED", "U+DCEE", "U+DCEF", "U+DCF0", "U+DCF1", "U+DCF2", "U+DD50", "U+DD51",
         "U+DD52", "U+DD53", "U+DD54", "U+DD55", "U+DD56", "U+DD57", "U+DD58", "U+DD59",
         "U+DD5A", "U+DD5B", "U+DD5C", "U+DD5D", "U+DD5E", "U+DD5F", "U+DD60", "U+DD61",
         "U+DD62", "U+DD63", "U+DD64", "U+DD65", "U+DD70", "U+DD71", "U+DD72", "U+DD73",
         "U+DD74", "U+DD75", "U+DD76", "U+DD77", "U+DD78", "U+DD79", "U+DD7A", "U+DD7B",
         "U+DD7C", "U+DD7D", "U+DD7E", "U+DD7F", "U+DD80", "U+DD81", "U+DD82", "U+DD83",
         "U+DD84", "U+DD85"})
    \cup ({"U+D806"} \X
        {"U+DCA0", "U+DCA1", "U+DCA2", "U+DCA3", "U+DCA4", "U+DCA5", "U+DCA6", "U+DCA7",
         "U+DCA8", "U+DCA9", "U+DCAA", "U+DCAB", "U+DCAC", "U+DCAD", "U+DCAE", "U+DCAF",
         "U+DCB0", "U+DCB1", "U+DCB2", "U+DCB3", "U+DCB4", "U+DCB5", "U+DCB6", "U+DCB7",
         "U+DCB8", "U+DCB9", "U+DCBA", "U+DCBB", "U+DCBC", "U+DCBD", "U+DCBE", "U+DCBF",
         "U+DCC0", "U+DCC1", "U+DCC2", "U+DCC3", "U+DCC4", "U+DCC5", "U+DCC6", "U+DCC7",
         "U+DCC8", "U+DCC9", "U+DCCA", "U+DCCB", "U+DCCC", "U+DCCD", "U+DCCE", "U+DCCF",
         "U+DCD0", "U+DCD1", "U+DCD2", "U+DCD3", "U+DCD4", "U+DCD5", "U+DCD6", "U+DCD7",
         "U+DCD8", "U+DCD9", "U+DCDA", "U+DCDB", "U+DCDC", "U+DCDD", "U+DCDE", "U+DCDF"})
    \cup ({"U+D81B"} \X
        {"U+DE40", "U+DE41", "U+DE42", "U+DE43", "U+DE44", "U+DE45", "U+DE46", "U+DE47",
         "U+DE48", "U+DE49", "U+DE4A", "U+DE4B", "U+DE4C", "U+DE4D", "U+DE4E", "U+DE4F",
         "U+DE50", "U+DE51", "U+DE52", "U+DE53", "U+DE54", "U+DE55", "U+DE56", "U+DE57",
         "U+DE58", "U+DE59", "U+DE5A", "U+DE5B", "U+DE5C", "U+DE5D", "U+DE5E", "U+DE5F",
         "U+DE60", "U+DE61", "U+DE62", "U+DE63", "U+DE64", "U+DE65", "U+DE66", "U+DE67",
         "U+DE68", "U+DE69", "U+DE6A", "U+DE6B", "U+DE6C", "U+DE6D", "U+DE6E", "U+DE6F",
         "U+DE70", "U+DE71", "U+DE72", "U+DE73", "U+DE74", "U+DE75", "U+DE76", "U+DE77",
         "U+DE78", "U+DE79", "U+DE7A", "U+DE7B", "U+DE7C", "U+DE7D", "U+DE7E", "U+DE7F",
         "U+DEA0", "U+DEA1", "U+DEA2", "U+DEA3", "U+DEA4", "U+DEA5", "U+DEA6", "U+DEA7",
         "U+DEA8", "U+DEA9", "U+DEAA", "U+DEAB", "U+DEAC", "U+DEAD", "U+DEAE", "U+DEAF",
         "U+DEB0", "U+DEB1", "U+DEB2", "U+DEB3", "U+DEB4", "U+DEB5", "U+DEB6", "U+DEB7",
         "U+DEB8", "U+DEBB", "U+DEBC", "U+DEBD", "U+DEBE", "U+DEBF", "U+DEC0", "U+DEC1",
         "U+DEC2", "U+DEC3", "U+DEC4", "U+DEC5", "U+DEC6", "U+DEC7", "U+DEC8", "U+DEC9",
         "U+DECA", "U+DECB", "U+DECC", "U+DECD", "U+DECE", "U+DECF", "U+DED0", "U+DED1",
         "U+DED2", "U+DED3"})
    \cup ({"U+D835"} \X
        {"U+DC00", "U+DC01", "U+DC02", "U+DC03", "U+DC04", "U+DC05", "U+DC06", "U+DC07",
         "U+DC08", "U+DC09", "U+DC0A", "U+DC0B", "U+DC0C", "U+DC0D", "U+DC0E", "U+DC0F",
         "U+DC10", "U+DC11", "U+DC12", "U+DC13", "U+DC14", "U+DC15", "U+DC16", "U+DC17",
         "U+DC18", "U+DC19", "U+DC1A", "U+DC1B", "U+DC1C", "U+DC1D", "U+DC1E", "U+DC1F",
         "U+DC20", "U+DC21", "U+DC22", "U+DC23", "U+DC24", "U+DC25", "U+DC26", "U+DC27",
         "U+DC28", "U+DC29", "U+DC2A", "U+DC2B", "U+DC2C", "U+DC2D", "U+DC2E", "U+DC2F",
         "U+DC30", "U+DC31", "U+DC32", "U+DC33", "U+DC34", "U+DC35", "U+DC36", "U+DC37",
         "U+DC38", "U+DC39", "U+DC3A", "U+DC3B", "U+DC3C", "U+DC3D", "U+DC3E", "U+DC3F",
         "U+DC40", "U+DC41", "U+DC42", "U+DC43", "U+DC44", "U+DC45", "U+DC46", "U+DC47",
         "U+DC48", "U+DC49", "U+DC4A", "U+DC4B", "U+DC4C", "U+DC4D", "U+DC4E", "U+DC4F",
         "U+DC50", "U+DC51", "U+DC52", "U+DC53", "U+DC54", "U+DC56", "U+DC57", "U+DC58",
         "U+DC59", "U+DC5A", "U+DC5B", "U+DC5C", "U+DC5D", "U+DC5E", "U+DC5F", "U+DC60",
         "U+DC61", "U+DC62", "U+DC63", "U+DC64", "U+DC65", "U+DC66", "U+DC67", "U+DC68",
         "U+DC69", "U+DC6A", "U+DC6B", "U+DC6C", "U+DC6D", "U+DC6E", "U+DC6F", "U+DC70",
         "U+DC71", "U+DC72", "U+DC73", "U+DC74", "U+DC75", "U+DC76", "U+DC77", "U+DC78",
         "U+DC79", "U+DC7A", "U+DC7B", "U+DC7C", "U+DC7D", "U+DC7E", "U+DC7F", "U+DC80",
         "U+DC81", "U+DC82", "U+DC83", "U+DC84", "U+DC85", "U+DC86", "U+DC87", "U+DC88",
         "U+DC89", "U+DC8A", "U+DC8B", "U+DC8C", "U+DC8D", "U+DC8E", "U+DC8F", "U+DC90",
         "U+DC91", "U+DC92", "U+DC93", "U+DC94", "U+DC95", "U+DC96", "U+DC97", "U+DC98",
         "U+DC99", "U+DC9A", "U+DC9B", "U+DC9C", "U+DC9E", "U+DC9F", "U+DCA2", "U+DCA5",
         "U+DCA6", "U+DCA9", "U+DCAA", "U+DCAB", "U+DCAC", "U+DCAE", "U+DCAF", "U+DCB0",
         "U+DCB1", "U+DCB2", "U+DCB3", "U+DCB4", "U+DCB5", "U+DCB6", "U+DCB7", "U+DCB8",
         "U+DCB9", "U+DCBB", "U+DCBD", "U+DCBE", "U+DCBF", "U+DCC0", "U+DCC1", "U+DCC2",
         "U+DCC3", "U+DCC5", "U+DCC6", "U+DCC7", "U+DCC8", "U+DCC9", "U+DCCA", "U+DCCB",
         "U+DCCC", "U+DCCD", "U+DCCE", "U+DCCF", "U+DCD0", "U+DCD1", "U+DCD2", "U+DCD3",
         "U+DCD4", "U+DCD5", "U+DCD6", "U+DCD7", "U+DCD8", "U+DCD9", "U+DCDA", "U+DCDB",
         "U+DCDC", "U+DCDD", "U+DCDE", "U+DCDF", "U+DCE0", "U+DCE1", "U+DCE2", "U+DCE3",
         "U+DCE4", "U+DCE5", "U+DCE6", "U+DCE7", "U+DCE8", "U+DCE9", "U+DCEA", "U+DCEB",
         "U+DCEC", "U+DCED", "U+DCEE", "U+DCEF", "U+DCF0", "U+DCF1", "U+DCF2", "U+DCF3",
         "U+DCF4", "U+DCF5", "U+DCF6", "U+DCF7", "U+DCF8", "U+DCF9", "U+DCFA", "U+DCFB",
         "U+DCFC", "U+DCFD", "U+DCFE", "U+DCFF", "U+DD00", "U+DD01", "U+DD02", "U+DD03",
         "U+DD04", "U+DD05", "U+DD07", "U+DD08", "U+DD09", "U+DD0A", "U+DD0D", "U+DD0E",
         "U+DD0F", "U+DD10", "U+DD11", "U+DD12", "U+DD13", "U+DD14", "U+DD16", "U+DD17",
         "U+DD18", "U+DD19", "U+DD1A", "U+DD1B", "U+DD1C", "U+DD1E", "U+DD1F", "U+DD20",
         "U+DD21", "U+DD22", "U+DD23", "U+DD24", "U+DD25", "U+DD26", "U+DD27", "U+DD28",
         "U+DD29", "U+DD2A", "U+DD2B", "U+DD2C", "U+DD2D", "U+DD2E", "U+DD2F", "U+DD30",
         "U+DD31", "U+DD32", "U+DD33", "U+DD34", "U+DD35", "U+DD36", "U+DD37", "U+DD38",
         "U+DD39", "U+DD3B", "U+DD3C", "U+DD3D", "U+DD3E", "U+DD40", "U+DD41", "U+DD42",
         "U+DD43", "U+DD44", "U+DD46", "U+DD4A", "U+DD4B", "U+DD4C", "U+DD4D", "U+DD4E",
         "U+DD4F", "U+DD50", "U+DD52", "U+DD53", "U+DD54", "U+DD55", "U+DD56", "U+DD57",
         "U+DD58", "U+DD59", "U+DD5A", "U+DD5B", "U+DD5C", "U+DD5D", "U+DD5E", "U+DD5F",
         "U+DD60", "U+DD61", "U+DD62", "U+DD63", "U+DD64", "U+DD65", "U+DD66", "U+DD67",
         "U+DD68", "U+DD69", "U+DD6A", "U+DD6B", "U+DD6C", "U+DD6D", "U+DD6E", "U+DD6F",
         "U+DD70", "U+DD71", "U+DD72", "U+DD73", "U+DD74", "U+DD75", "U+DD76", "U+DD77",
         "U+DD78", "U+DD79", "U+DD7A", "U+DD7B", "U+DD7C", "U+DD7D", "U+DD7E", "U+DD7F",
         "U+DD80", "U+DD81", "U+DD82", "U+DD83", "U+DD84", "U+DD85", "U+DD86", "U+DD87",
         "U+DD88", "U+DD89", "U+DD8A", "U+DD8B", "U+DD8C", "U+DD8D", "U+DD8E", "U+DD8F",
         "U+DD90", "U+DD91", "U+DD92", "U+DD93", "U+DD94", "U+DD95", "U+DD96", "U+DD97",
         "U+DD98", "U+DD99", "U+DD9A", "U+DD9B", "U+DD9C", "U+DD9D", "U+DD9E", "U+DD9F",
         "U+DDA0", "U+DDA1", "U+DDA2", "U+DDA3", "U+DDA4", "U+DDA5", "U+DDA6", "U+DDA7",
         "U+DDA8", "U+DDA9", "U+DDAA", "U+DDAB", "U+DDAC", "U+DDAD", "U+DDAE", "U+DDAF",
         "U+DDB0", "U+DDB1", "U+DDB2", "U+DDB3", "U+DDB4", "U+DDB5", "U+DDB6", "U+DDB7",
         "U+DDB8", "U+DDB9", "U+DDBA", "U+DDBB", "U+DDBC", "U+DDBD", "U+DDBE", "U+DDBF",
         "U+DDC0", "U+DDC1", "U+DDC2", "U+DDC3", "U+DDC4", "U+DDC5", "U+DDC6", "U+DDC7",
         "U+DDC8", "U+DDC9", "U+DDCA", "U+DDCB", "U+DDCC", "U+DDCD", "U+DDCE", "U+DDCF",
         "U+DDD0", "U+DDD1", "U+DDD2", "U+DDD3", "U+DDD4", "U+DDD5", "U+DDD6", "U+DDD7",
         "U+DDD8", "U+DDD9", "U+DDDA", "U+DDDB", "U+DDDC", "U+DDDD", "U+DDDE", "U+DDDF",
         "U+DDE0", "U+DDE1", "U+DDE2", "U+DDE3", "U+DDE4", "U+DDE5", "U+DDE6", "U+DDE7",
         "U+DDE8", "U+DDE9", "U+DDEA", "U+DDEB", "U+DDEC", "U+DDED", "U+DDEE", "U+DDEF",
         "U+DDF0", "U+DDF1", "U+DDF2", "U+DDF3", "U+DDF4", "U+DDF5", "U+DDF6", "U+DDF7",
         "U+DDF8", "U+DDF9", "U+DDFA", "U+DDFB", "U+DDFC", "U+DDFD", "U+DDFE", "U+DDFF",
         "U+DE00", "U+DE01", "U+DE02", "U+DE03", "U+DE04", "U+DE05", "U+DE06", "U+DE07",
         "U+DE08", "U+DE09", "U+DE0A", "U+DE0B", "U+DE0C", "U+DE0D", "U+DE0E", "U+DE0F",
         "U+DE10", "U+DE11", "U+DE12", "U+DE13", "U+DE14", "U+DE15", "U+DE16", "U+DE17",
         "U+DE18", "U+DE19", "U+DE1A", "U+DE1B", "U+DE1C", "U+DE1D", "U+DE1E", "U+DE1F",
         "U+DE20", "U+DE21", "U+DE22", "U+DE23", "U+DE24", "U+DE25", "U+DE26", "U+DE27",
         "U+DE28", "U+DE29", "U+DE2A", "U+DE2B", "U+DE2C", "U+DE2D", "U+DE2E", "U+DE2F",
         "U+DE30", "U+DE31", "U+DE32", "U+DE33", "U+DE34", "U+DE35", "U+DE36", "U+DE37",
         "U+DE38", "U+DE39", "U+DE3A", "U+DE3B", "U+DE3C", "U+DE3D", "U+DE3E", "U+DE3F",
         "U+DE40", "U+DE41", "U+DE42", "U+DE43", "U+DE44", "U+DE45", "U+DE46", "U+DE47",
         "U+DE48", "U+DE49", "U+DE4A", "U+DE4B", "U+DE4C", "U+DE4D", "U+DE4E", "U+DE4F",
         "U+DE50", "U+DE51", "U+DE52", "U+DE53", "U+DE54", "U+DE55", "U+DE56", "U+DE57",
         "U+DE58", "U+DE59", "U+DE5A", "U+DE5B", "U+DE5C", "U+DE5D", "U+DE5E", "U+DE5F",
         "U+DE60", "U+DE61", "U+DE62", "U+DE63", "U+DE64", "U+DE65", "U+DE66", "U+DE67",
         "U+DE68", "U+DE69", "U+DE6A", "U+DE6B", "U+DE6C", "U+DE6D", "U+DE6E", "U+DE6F",
         "U+DE70", "U+DE71", "U+DE72", "U+DE73", "U+DE74", "U+DE75", "U+DE76", "U+DE77",
         "U+DE78", "U+DE79", "U+DE7A", "U+DE7B", "U+DE7C", "U+DE7D", "U+DE7E", "U+DE7F",
         "U+DE80", "U+DE81", "U+DE82", "U+DE83", "U+DE84", "U+DE85", "U+DE86", "U+DE87",
         "U+DE88", "U+DE89", "U+DE8A", "U+DE8B", "U+DE8C", "U+DE8D", "U+DE8E", "U+DE8F",
         "U+DE90", "U+DE91", "U+DE92", "U+DE93", "U+DE94", "U+DE95", "U+DE96", "U+DE97",
         "U+DE98", "U+DE99", "U+DE9A", "U+DE9B", "U+DE9C", "U+DE9D", "U+DE9E", "U+DE9F",
         "U+DEA0", "U+DEA1", "U+DEA2", "U+DEA3", "U+DEA4", "U+DEA5", "U+DEA8", "U+DEA9",
         "U+DEAA", "U+DEAB", "U+DEAC", "U+DEAD", "U+DEAE", "U+DEAF", "U+DEB0", "U+DEB1",
         "U+DEB2", "U+DEB3", "U+DEB4", "U+DEB5", "U+DEB6", "U+DEB7", "U+DEB8", "U+DEB9",
         "U+DEBA", "U+DEBB", "U+DEBC", "U+DEBD", "U+DEBE", "U+DEBF", "U+DEC0", "U+DEC2",
         "U+DEC3", "U+DEC4", "U+DEC5", "U+DEC6", "U+DEC7", "U+DEC8", "U+DEC9", "U+DECA",
         "U+DECB", "U+DECC", "U+DECD", "U+DECE", "U+DECF", "U+DED0", "U+DED1", "U+DED2",
         "U+DED3", "U+DED4", "U+DED5", "U+DED6", "U+DED7", "U+DED8", "U+DED9", "U+DEDA",
         "U+DEDC", "U+DEDD", "U+DEDE", "U+DEDF", "U+DEE0", "U+DEE1", "U+DEE2", "U+DEE3",
         "U+DEE4", "U+DEE5", "U+DEE6", "U+DEE7", "U+DEE8", "U+DEE9", "U+DEEA", "U+DEEB",
         "U+DEEC", "U+DEED", "U+DEEE", "U+DEEF", "U+DEF0", "U+DEF1", "U+DEF2", "U+DEF3",
         "U+DEF4", "U+DEF5", "U+DEF6", "U+DEF7", "U+DEF8", "U+DEF9", "U+DEFA", "U+DEFC",
         "U+DEFD", "U+DEFE", "U+DEFF", "U+DF00", "U+DF01", "U+DF02", "U+DF03", "U+DF04",
         "U+DF05", "U+DF06", "U+DF07", "U+DF08", "U+DF09", "U+DF0A", "U+DF0B", "U+DF0C",
         "U+DF0D", "U+DF0E", "U+DF0F", "U+DF10", "U+DF11", "U+DF12", "U+DF13", "U+DF14",
         "U+DF16", "U+DF17", "U+DF18", "U+DF19", "U+DF1A", "U+DF1B", "U+DF1C", "U+DF1D",
         "U+DF1E", "U+DF1F", "U+DF20", "U+DF21", "U+DF22", "U+DF23", "U+DF24", "U+DF25",
         "U+DF26", "U+DF27", "U+DF28", "U+DF29", "U+DF2A", "U+DF2B", "U+DF2C", "U+DF2D",
         "U+DF2E", "U+DF2F", "U+DF30", "U+DF31", "U+DF32", "U+DF33", "U+DF34", "U+DF36",
         "U+DF37", "U+DF38", "U+DF39", "U+DF3A", "U+DF3B", "U+DF3C", "U+DF3D", "U+DF3E",
         "U+DF3F", "U+DF40", "U+DF41", "U+DF42", "U+DF43", "U+DF44", "U+DF45", "U+DF46",
         "U+DF47", "U+DF48", "U+DF49", "U+DF4A", "U+DF4B", "U+DF4C", "U+DF4D", "U+DF4E",
         "U+DF50", "U+DF51", "U+DF52", "U+DF53", "U+DF54", "U+DF55", "U+DF56", "U+DF57",
         "U+DF58", "U+DF59", "U+DF5A", "U+DF5B", "U+DF5C", "U+DF5D", "U+DF5E", "U+DF5F",
         "U+DF60", "U+DF61", "U+DF62", "U+DF63", "U+DF64", "U+DF65", "U+DF66", "U+DF67",
         "U+DF68", "U+DF69", "U+DF6A", "U+DF6B", "U+DF6C", "U+DF6D", "U+DF6E", "U+DF70",
         "U+DF71", "U+DF72", "U+DF73", "U+DF74", "U+DF75", "U+DF76", "U+DF77", "U+DF78",
         "U+DF79", "U+DF7A", "U+DF7B", "U+DF7C", "U+DF7D", "U+DF7E", "U+DF7F", "U+DF80",
         "U+DF81", "U+DF82", "U+DF83", "U+DF84", "U+DF85", "U+DF86", "U+DF87", "U+DF88",
         "U+DF8A", "U+DF8B", "U+DF8C", "U+DF8D", "U+DF8E", "U+DF8F", "U+DF90", "U+DF91",
         "U+DF92", "U+DF93", "U+DF94", "U+DF95", "U+DF96", "U+DF97", "U+DF98", "U+DF99",
         "U+DF9A", "U+DF9B", "U+DF9C", "U+DF9D", "U+DF9E", "U+DF9F", "U+DFA0", "U+DFA1",
         "U+DFA2", "U+DFA3", "U+DFA4", "U+DFA5", "U+DFA6", "U+DFA7", "U+DFA8", "U+DFAA",
         "U+DFAB", "U+DFAC", "U+DFAD", "U+DFAE", "U+DFAF", "U+DFB0", "U+DFB1", "U+DFB2",
         "U+DFB3", "U+DFB4", "U+DFB5", "U+DFB6", "U+DFB7", "U+DFB8", "U+DFB9", "U+DFBA",
         "U+DFBB", "U+DFBC", "U+DFBD", "U+DFBE", "U+DFBF", "U+DFC0", "U+DFC1", "U+DFC2",
         "U+DFC4", "U+DFC5", "U+DFC6", "U+DFC7", "U+DFC8", "U+DFC9", "U+DFCA", "U+DFCB"})
    \cup ({"U+D837"} \X
        {"U+DF00", "U+DF01", "U+DF02", "U+DF03", "U+DF04", "U+DF05", "U+DF06", "U+DF07",
         "U+DF08", "U+DF09", "U+DF0B", "U+DF0C", "U+DF0D", "U+DF0E", "U+DF0F", "U+DF10",
         "U+DF11", "U+DF12", "U+DF13", "U+DF14", "U+DF15", "U+DF16", "U+DF17", "U+DF18",
         "U+DF19", "U+DF1A", "U+DF1B", "U+DF1C", "U+DF1D", "U+DF1E", "U+DF25", "U+DF26",
         "U+DF27", "U+DF28", "U+DF29", "U+DF2A"})
    \cup ({"U+D83A"} \X
        {"U+DD00", "U+DD01", "U+DD02", "U+DD03", "U+DD04", "U+DD05", "U+DD06", "U+DD07",
         "U+DD08", "U+DD09", "U+DD0A", "U+DD0B", "U+DD0C", "U+DD0D", "U+DD0E", "U+DD0F",
         "U+DD10", "U+DD11", "U+DD12", "U+DD13", "U+DD14", "U+DD15", "U+DD16", "U+DD17",
         "U+DD18", "U+DD19", "U+DD1A", "U+DD1B", "U+DD1C", "U+DD1D", "U+DD1E", "U+DD1F",
         "U+DD20", "U+DD21", "U+DD22", "U+DD23", "U+DD24", "U+DD25", "U+DD26", "U+DD27",
         "U+DD28", "U+DD29", "U+DD2A", "U+DD2B", "U+DD2C", "U+DD2D", "U+DD2E", "U+DD2F",
         "U+DD30", "U+DD31", "U+DD32", "U+DD33", "U+DD34", "U+DD35", "U+DD36", "U+DD37",
         "U+DD38", "U+DD39", "U+DD3A", "U+DD3B", "U+DD3C", "U+DD3D", "U+DD3E", "U+DD3F",
         "U+DD40", "U+DD41", "U+DD42", "U+DD43"})
    \cup ({"U+D83C"} \X
        {"U+DD30", "U+DD31", "U+DD32", "U+DD33", "U+DD34", "U+DD35", "U+DD36", "U+DD37",
         "U+DD38", "U+DD39", "U+DD3A", "U+DD3B", "U+DD3C", "U+DD3D", "U+DD3E", "U+DD3F",
         "U+DD40", "U+DD41", "U+DD42", "U+DD43", "U+DD44", "U+DD45", "U+DD46", "U+DD47",
         "U+DD48", "U+DD49", "U+DD50", "U+DD51", "U+DD52", "U+DD53", "U+DD54", "U+DD55",
         "U+DD56", "U+DD57", "U+DD58", "U+DD59", "U+DD5A", "U+DD5B", "U+DD5C", "U+DD5D",
         "U+DD5E", "U+DD5F", "U+DD60", "U+DD61", "U+DD62", "U+DD63", "U+DD64", "U+DD65",
         "U+DD66", "U+DD67", "U+DD68", "U+DD69", "U+DD70", "U+DD71", "U+DD72", "U+DD73",
         "U+DD74", "U+DD75", "U+DD76", "U+DD77", "U+DD78", "U+DD79", "U+DD7A", "U+DD7B",
         "U+DD7C", "U+DD7D", "U+DD7E", "U+DD7F", "U+DD80", "U+DD81", "U+DD82", "U+DD83",
         "U+DD84", "U+DD85", "U+DD86", "U+DD87", "U+DD88", "U+DD89"})

\* The characters of property Case_Ignorable, cased or not, of one code unit.
CaseIgnorableUnits ==
    {"'", ".", ":", "^", "U+0060", "¨", "­", "¯", "´", "·", "¸", "ʰ", "ʱ", "ʲ", "ʳ", "ʴ", "ʵ",
     "ʶ", "ʷ", "ʸ", "ʹ", "ʺ", "ʻ", "ʼ", "ʽ", "ʾ", "ʿ", "ˀ", "ˁ", "˂", "˃", "˄", "˅", "ˆ", "ˇ",
     "ˈ", "ˉ", "ˊ", "ˋ", "ˌ", "ˍ", "ˎ", "ˏ", "ː", "ˑ", "˒", "˓", "˔", "˕", "˖", "˗", "˘", "˙",
     "˚", "˛", "˜", "˝", "˞", "˟", "ˠ", "ˡ", "ˢ", "ˣ", "ˤ", "˥", "˦", "˧", "˨", "˩", "˪", "˫",
     "ˬ", "˭", "ˮ", "˯", "˰", "˱", "˲", "˳", "˴", "˵", "˶", "˷", "˸", "˹", "˺", "˻", "˼", "˽",
     "˾", "˿", "U+0300", "U+0301", "U+0302", "U+0303", "U+0304", "U+0305", "U+0306", "U+0307",
     "U+0308", "U+0309", "U+030A", "U+030B", "U+030C", "U+030D", "U+030E", "U+030F", "U+0310",
     "U+0311", "U+0312", "U+0313", "U+0314", "U+0315", "U+0316", "U+0317", "U+0318", "U+0319",
     "U+031A", "U+031B", "U+031C", "U+031D", "U+031E", "U+031F", "U+0320", "U+0321", "U+0322",
     "U+0323", "U+0324", "U+0325", "U+0326", "U+0327", "U+0328", "U+0329", "U+032A", "U+032B",
     "U+032C", "U+032D", "U+032E", "U+032F", "U+0330", "U+0331", "U+0332", "U+0333", "U+0334",
     "U+0335", "U+0336", "U+0337", "U+0338", "U+0339", "U+033A", "U+033B", "U+033C", "U+033D",
     "U+033E", "U+033F", "U+0340", "U+0341", "U+0342", "U+0343", "U+0344", "U+0345", "U+0346",
     "U+0347", "U+0348", "U+0349", "U+034A", "U+034B", "U+034C", "U+034D", "U+034E", "U+034F",
     "U+0350", "U+0351", "U+0352", "U+0353", "U+0354", "U+0355", "U+0356", "U+0357", "U+0358",
     "U+0359", "U+035A", "U+035B", "U+035C", "U+035D", "U+035E", "U+035F", "U+0360", "U+0361",
     "U+0362", "U+0363", "U+0364", "U+0365", "U+0366", "U+0367", "U+0368", "U+0369", "U+036A",
     "U+036B", "U+036C", "U+036D", "U+036E", "U+036F", "U+0374", "U+0375", "U+037A", "΄", "΅",
     "·", "҃", "҄", "҅", "҆", "҇", "҈", "҉", "U+0559", "U+055F", "֑", "֒", "֓", "֔", "֕", "֖",
     "֗", "֘", "֙", "֚", "֛", "֜", "֝", "֞", "֟", "֠", "֡", "֢", "֣", "֤", "֥", "֦", "֧", "֨",
     "֩", "֪", "֫", "֬", "֭", "֮", "֯", "ְ", "ֱ", "ֲ", "ֳ", "ִ", "ֵ", "ֶ", "ַ", "ָ", "ֹ", "ֺ",
     "ֻ", "ּ", "ֽ", "ֿ", "ׁ", "ׂ", "ׄ", "ׅ", "ׇ", "״", "U+0600", "U+0601", "U+0602", "U+0603",
     "U+0604", "U+0605", "U+0610", "U+0611", "U+0612", "U+0613", "U+0614", "U+0615", "U+0616",
     "U+0617", "U+0618", "U+0619", "U+061A", "U+061C", "U+0640", "U+064B", "U+064C", "U+064D",
     "U+064E", "U+064F", "U+0650", "U+0651", "U+0652", "U+0653", "U+0654", "U+0655", "U+0656",
     "U+0657", "U+0658", "U+0659", "U+065A", "U+065B", "U+065C", "U+065D", "U+065E", "U+065F",
     "U+0670", "ۖ", "ۗ", "ۘ", "ۙ", "ۚ", "ۛ", "ۜ", "۝", "۟", "۠", "ۡ", "ۢ", "ۣ", "ۤ", "ۥ", "ۦ",
     "ۧ", "ۨ", "۪", "۫", "۬", "ۭ", "U+070F", "U+0711", "U+0730", "U+0731", "U+0732", "U+0733",
     "U+0734", "U+0735", "U+0736", "U+0737", "U+0738", "U+0739", "U+073A", "U+073B", "U+073C",
     "U+073D", "U+073E", "U+073F", "U+0740", "U+0741", "U+0742", "U+0743", "U+0744", "U+0745",
     "U+0746", "U+0747", "U+0748", "U+0749", "U+074A", "ަ", "ާ", "ި", "ީ", "ު", "ޫ", "ެ", "ޭ",
     "ޮ", "ޯ", "ް", "߫", "߬", "߭", "߮", "߯", "߰", "߱", "߲", "߳", "ߴ", "ߵ", "ߺ", "߽", "U+0816",
     "U+0817", "U+0818", "U+0819", "U+081A", "U+081B", "U+081C", "U+081D", "U+081E", "U+081F",
     "U+0820", "U+0821", "U+0822", "U+0823", "U+0824", "U+0825", "U+0826", "U+0827", "U+0828",
     "U+0829", "U+082A", "U+082B", "U+082C", "U+082D", "U+0859", "U+085A", "U+085B", "࢈", "࢐",
     "࢑", "ࢗ", "࢘", "࢙", "࢚", "࢛", "࢜", "࢝", "࢞", "࢟", "ࣉ", "࣊", "࣋", "࣌", "࣍", "࣎", "࣏", "࣐",
     "࣑", "࣒", "࣓", "ࣔ", "ࣕ", "ࣖ", "ࣗ", "ࣘ", "ࣙ", "ࣚ", "ࣛ", "ࣜ", "ࣝ", "ࣞ", "ࣟ", "࣠", "࣡", "࣢",
     "ࣣ", "ࣤ", "ࣥ", "ࣦ", "ࣧ", "ࣨ", "ࣩ", "࣪", "࣫", "࣬", "࣭", "࣮", "࣯", "ࣰ", "ࣱ", "ࣲ", "ࣳ", "ࣴ",
     "ࣵ", "ࣶ", "ࣷ", "ࣸ", "ࣹ", "ࣺ", "ࣻ", "ࣼ", "ࣽ", "ࣾ", "ࣿ", "U+0900", "U+0901", "U+0902",
     "U+093A", "U+093C", "U+0941", "U+0942", "U+0943", "U+0944", "U+0945", "U+0946", "U+0947",
     "U+0948", "U+094D", "U+0951", "U+0952", "U+0953", "U+0954", "U+0955", "U+0956", "U+0957",
     "U+0962", "U+0963", "U+0971", "ঁ", "়", "ু", "ূ", "ৃ", "ৄ", "্", "ৢ", "ৣ", "৾", "U+0A01",
     "U+0A02", "U+0A3C", "U+0A41", "U+0A42", "U+0A47", "U+0A48", "U+0A4B", "U+0A4C", "U+0A4D",
     "U+0A51", "U+0A70", "U+0A71", "U+0A75", "ઁ", "ં", "઼", "ુ", "ૂ", "ૃ", "ૄ", "ૅ", "ે", "ૈ",
     "્", "ૢ", "ૣ", "ૺ", "ૻ", "ૼ", "૽", "૾", "૿", "U+0B01", "U+0B3C", "U+0B3F", "U+0B41",
     "U+0B42", "U+0B43", "U+0B44", "U+0B4D", "U+0B55", "U+0B56", "U+0B62", "U+0B63", "ஂ", "ீ",
     "்", "U+0C00", "U+0C04", "U+0C3C", "U+0C3E", "U+0C3F", "U+0C40", "U+0C46", "U+0C47",
     "U+0C48", "U+0C4A", "U+0C4B", "U+0C4C", "U+0C4D", "U+0C55", "U+0C56", "U+0C62", "U+0C63",
     "ಁ", "಼", "ಿ", "ೆ", "ೌ", "್", "ೢ", "ೣ", "U+0D00", "U+0D01", "U+0D3B", "U+0D3C", "U+0D41",
     "U+0D42", "U+0D43", "U+0D44", "U+0D4D", "U+0D62", "U+0D63", "ඁ", "්", "ි", "ී", "ු", "ූ",
     "U+0E31", "U+0E34", "U+0E35", "U+0E36", "U+0E37", "U+0E38", "U+0E39", "U+0E3A", "U+0E46",
     "U+0E47", "U+0E48", "U+0E49", "U+0E4A", "U+0E4B", "U+0E4C", "U+0E4D", "U+0E4E", "ັ", "ິ",
     "ີ", "ຶ", "ື", "ຸ", "ູ", "຺", "ົ", "ຼ", "ໆ", "່", "້", "໊", "໋", "໌", "ໍ", "໎", "U+0F18",
     "U+0F19", "U+0F35", "U+0F37", "U+0F39", "U+0F71", "U+0F72", "U+0F73", "U+0F74", "U+0F75",
     "U+0F76", "U+0F77", "U+0F78", "U+0F79", "U+0F7A", "U+0F7B", "U+0F7C", "U+0F7D", "U+0F7E",
     "ྀ", "ཱྀ", "ྂ", "ྃ", "྄", "྆", "྇", "ྍ", "ྎ", "ྏ", "ྐ", "ྑ", "ྒ", "ྒྷ", "ྔ", "ྕ", "ྖ", "ྗ",
     "ྙ", "ྚ", "ྛ", "ྜ", "ྜྷ", "ྞ", "ྟ", "ྠ", "ྡ", "ྡྷ", "ྣ", "ྤ", "ྥ", "ྦ", "ྦྷ", "ྨ", "ྩ", "ྪ",
     "ྫ", "ྫྷ", "ྭ", "ྮ", "ྯ", "ྰ", "ྱ", "ྲ", "ླ", "ྴ", "ྵ", "ྶ", "ྷ", "ྸ", "ྐྵ", "ྺ", "ྻ", "ྼ",
     "࿆", "U+102D", "U+102E", "U+102F", "U+1030", "U+1032", "U+1033", "U+1034", "U+1035",
     "U+1036", "U+1037", "U+1039", "U+103A", "U+103D", "U+103E", "U+1058", "U+1059", "U+105E",
     "U+105F", "U+1060", "U+1071", "U+1072", "U+1073", "U+1074", "ႂ", "ႅ", "ႆ", "ႍ", "ႝ", "ჼ",
     "U+135D", "U+135E", "U+135F", "U+1712", "U+1713", "U+1714", "U+1732", "U+1733", "U+1752",
     "U+1753", "U+1772", "U+1773", "឴", "឵", "ិ", "ី", "ឹ", "ឺ", "ុ", "ូ", "ួ", "ំ", "៉", "៊",
     "់", "៌", "៍", "៎", "៏", "័", "៑", "្", "៓", "ៗ", "៝", "U+180B", "U+180C", "U+180D",
     "U+180E", "U+180F", "U+1843", "ᢅ", "ᢆ", "ᢩ", "U+1920", "U+1921", "U+1922", "U+1927",
     "U+1928", "U+1932", "U+1939", "U+193A", "U+193B", "U+1A17", "U+1A18", "U+1A1B", "U+1A56",
     "U+1A58", "U+1A59", "U+1A5A", "U+1A5B", "U+1A5C", "U+1A5D", "U+1A5E", "U+1A60", "U+1A62",
     "U+1A65", "U+1A66", "U+1A67", "U+1A68", "U+1A69", "U+1A6A", "U+1A6B", "U+1A6C", "U+1A73",
     "U+1A74", "U+1A75", "U+1A76", "U+1A77", "U+1A78", "U+1A79", "U+1A7A", "U+1A7B", "U+1A7C",
     "U+1A7F", "ᪧ", "᪰", "᪱", "᪲", "᪳", "᪴", "᪵", "᪶", "᪷", "᪸", "᪹", "᪺", "᪻", "᪼", "᪽", "᪾",
     "ᪿ", "ᫀ", "᫁", "᫂", "᫃", "᫄", "᫅", "᫆", "᫇", "᫈", "᫉", "᫊", "᫋", "ᫌ", "ᫍ", "ᫎ", "᫏", "᫐",
     "᫑", "᫒", "᫓", "᫔", "᫕", "᫖", "᫗", "᫘", "᫙", "᫚", "᫛", "᫜", "᫝", "᫠", "᫡", "᫢", "᫣", "᫤",
     "᫥", "᫦", "᫧", "᫨", "᫩", "᫪", "᫫", "U+1B00", "U+1B01", "U+1B02", "U+1B03", "U+1B34",
     "U+1B36", "U+1B37", "U+1B38", "U+1B39", "U+1B3A", "U+1B3C", "U+1B42", "U+1B6B", "U+1B6C",
     "U+1B6D", "U+1B6E", "U+1B6F", "U+1B70", "U+1B71", "U+1B72", "U+1B73", "ᮀ", "ᮁ", "ᮢ", "ᮣ",
     "ᮤ", "ᮥ", "ᮨ", "ᮩ", "᮫", "ᮬ", "ᮭ", "᯦", "ᯨ", "ᯩ", "ᯭ", "ᯯ", "ᯰ", "ᯱ", "U+1C2C", "U+1C2D",
     "U+1C2E", "U+1C2F", "U+1C30", "U+1C31", "U+1C32", "U+1C33", "U+1C36", "U+1C37", "U+1C78",
     "U+1C79", "U+1C7A", "U+1C7B", "U+1C7C", "U+1C7D", "᳐", "᳑", "᳒", "᳔", "᳕", "᳖", "᳗", "᳘",
     "᳙", "᳚", "᳛", "᳜", "᳝", "᳞", "᳟", "᳠", "᳢", "᳣", "᳤", "᳥", "᳦", "᳧", "᳨", "᳭", "᳴", "᳸",
     "᳹", "U+1D2C", "U+1D2D", "U+1D2E", "U+1D2F", "U+1D30", "U+1D31", "U+1D32", "U+1D33",
     "U+1D34", "U+1D35", "U+1D36", "U+1D37", "U+1D38", "U+1D39", "U+1D3A", "U+1D3B", "U+1D3C",
     "U+1D3D", "U+1D3E", "U+1D3F", "U+1D40", "U+1D41", "U+1D42", "U+1D43", "U+1D44", "U+1D45",
     "U+1D46", "U+1D47", "U+1D48", "U+1D49", "U+1D4A", "U+1D4B", "U+1D4C", "U+1D4D", "U+1D4E",
     "U+1D4F", "U+1D50", "U+1D51", "U+1D52", "U+1D53", "U+1D54", "U+1D55", "U+1D56", "U+1D57",
     "U+1D58", "U+1D59", "U+1D5A", "U+1D5B", "U+1D5C", "U+1D5D", "U+1D5E", "U+1D5F", "U+1D60",
     "U+1D61", "U+1D62", "U+1D63", "U+1D64", "U+1D65", "U+1D66", "U+1D67", "U+1D68", "U+1D69",
     "U+1D6A", "U+1D78", "ᶛ", "ᶜ", "ᶝ", "ᶞ", "ᶟ", "ᶠ", "ᶡ", "ᶢ", "ᶣ", "ᶤ", "ᶥ", "ᶦ", "ᶧ", "ᶨ",
     "ᶩ", "ᶪ", "ᶫ", "ᶬ", "ᶭ", "ᶮ", "ᶯ", "ᶰ", "ᶱ", "ᶲ", "ᶳ", "ᶴ", "ᶵ", "ᶶ", "ᶷ", "ᶸ", "ᶹ", "ᶺ",
     "ᶻ", "ᶼ", "ᶽ", "ᶾ", "ᶿ", "᷀", "᷁", "᷂", "᷃", "᷄", "᷅", "᷆", "᷇", "᷈", "᷉", "᷊", "᷋", "᷌",
     "᷍", "᷎", "᷏", "᷐", "᷑", "᷒", "ᷓ", "ᷔ", "ᷕ", "ᷖ", "ᷗ", "ᷘ", "ᷙ", "ᷚ", "ᷛ", "ᷜ", "ᷝ", "ᷞ",
     "ᷟ", "ᷠ", "ᷡ", "ᷢ", "ᷣ", "ᷤ", "ᷥ", "ᷦ", "ᷧ", "ᷨ", "ᷩ", "ᷪ", "ᷫ", "ᷬ", "ᷭ", "ᷮ", "ᷯ", "ᷰ",
     "ᷱ", "ᷲ", "ᷳ", "ᷴ", "᷵", "᷶", "᷷", "᷸", "᷹", "᷺", "᷻", "᷼", "᷽", "᷾", "᷿", "᾽", "᾿", "῀",
     "῁", "῍", "῎", "῏", "῝", "῞", "῟", "῭", "΅", "`", "´", "῾", "U+200B", "U+200C", "U+200D",
     "U+200E", "U+200F", "U+2018", "U+2019", "U+2024", "U+2027", "U+202A", "U+202B", "U+202C",
     "U+202D", "U+202E", "U+2060", "U+2061", "U+2062", "U+2063", "U+2064", "U+2066", "U+2067",
     "U+2068", "U+2069", "U+206A", "U+206B", "U+206C", "U+206D", "U+206E", "U+206F", "U+2071",
     "U+207F", "ₐ", "ₑ", "ₒ", "ₓ", "ₔ", "ₕ", "ₖ", "ₗ", "ₘ", "ₙ", "ₚ", "ₛ", "ₜ", "⃐", "⃑", "⃒",
     "⃓", "⃔", "⃕", "⃖", "⃗", "⃘", "⃙", "⃚", "⃛", "⃜", "⃝", "⃞", "⃟", "⃠", "⃡", "⃢", "⃣", "⃤",
     "⃥", "⃦", "⃧", "⃨", "⃩", "⃪", "⃫", "⃬", "⃭", "⃮", "⃯", "⃰", "U+2C7C", "U+2C7D", "⳯", "⳰",
     "⳱", "U+2D6F", "U+2D7F", "ⷠ", "ⷡ", "ⷢ", "ⷣ", "ⷤ", "ⷥ", "ⷦ", "ⷧ", "ⷨ", "ⷩ", "ⷪ", "ⷫ", "ⷬ",
     "ⷭ", "ⷮ", "ⷯ", "ⷰ", "ⷱ", "ⷲ", "ⷳ", "ⷴ", "ⷵ", "ⷶ", "ⷷ", "ⷸ", "ⷹ", "ⷺ", "ⷻ", "ⷼ", "ⷽ", "ⷾ",
     "ⷿ", "U+2E2F", "U+3005", "U+302A", "U+302B", "U+302C", "U+302D", "U+3031", "U+3032",
     "U+3033", "U+3034", "U+3035", "U+303B", "゙", "゚", "゛", "゜", "ゝ", "ゞ", "ー", "ヽ", "ヾ",
     "U+A015", "ꓸ", "ꓹ", "ꓺ", "ꓻ", "ꓼ", "ꓽ", "U+A60C", "U+A66F", "U+A670", "U+A671", "U+A672",
     "U+A674", "U+A675", "U+A676", "U+A677", "U+A678", "U+A679", "U+A67A", "U+A67B", "U+A67C",
     "U+A67D", "U+A67F", "ꚜ", "ꚝ", "ꚞ", "ꚟ", "꛰", "꛱", "U+A700", "U+A701", "U+A702", "U+A703",
     "U+A704", "U+A705", "U+A706", "U+A707", "U+A708", "U+A709", "U+A70A", "U+A70B", "U+A70C",
     "U+A70D", "U+A70E", "U+A70F", "U+A710", "U+A711", "U+A712", "U+A713", "U+A714", "U+A715",
     "U+A716", "U+A717", "U+A718", "U+A719", "U+A71A", "U+A71B", "U+A71C", "U+A71D", "U+A71E",
     "U+A71F", "U+A720", "U+A721", "U+A770", "ꞈ", "꞉", "꞊", "꟱", "ꟲ", "ꟳ", "ꟴ", "ꟸ", "ꟹ",
     "U+A802", "U+A806", "U+A80B", "U+A825", "U+A826", "U+A82C", "꣄", "ꣅ", "꣠", "꣡", "꣢", "꣣",
     "꣤", "꣥", "꣦", "꣧", "꣨", "꣩", "꣪", "꣫", "꣬", "꣭", "꣮", "꣯", "꣰", "꣱", "ꣿ", "U+A926",
     "U+A927", "U+A928", "U+A929", "U+A92A", "U+A92B", "U+A92C", "U+A92D", "U+A947", "U+A948",
     "U+A949", "U+A94A", "U+A94B", "U+A94C", "U+A94D", "U+A94E", "U+A94F", "U+A950", "U+A951",
     "ꦀ", "ꦁ", "ꦂ", "꦳", "ꦶ", "ꦷ", "ꦸ", "ꦹ", "ꦼ", "ꦽ", "ꧏ", "ꧥ", "ꧦ", "U+AA29", "U+AA2A",
     "U+AA2B", "U+AA2C", "U+AA2D", "U+AA2E", "U+AA31", "U+AA32", "U+AA35", "U+AA36", "U+AA43",
     "U+AA4C", "U+AA70", "U+AA7C", "ꪰ", "ꪲ", "ꪳ", "ꪴ", "ꪷ", "ꪸ", "ꪾ", "꪿", "꫁", "ꫝ", "ꫬ", "ꫭ",
     "ꫳ", "ꫴ", "꫶", "U+AB5B", "U+AB5C", "U+AB5D", "U+AB5E", "U+AB5F", "U+AB69", "U+AB6A",
     "U+AB6B", "ꯥ", "ꯨ", "꯭", "U+FB1E", "﮲", "﮳", "﮴", "﮵", "﮶", "﮷", "﮸", "﮹", "﮺", "﮻", "﮼",
     "﮽", "﮾", "﮿", "﯀", "﯁", "﯂", "U+FE00", "U+FE01", "U+FE02", "U+FE03", "U+FE04", "U+FE05",
     "U+FE06", "U+FE07", "U+FE08", "U+FE09", "U+FE0A", "U+FE0B", "U+FE0C", "U+FE0D", "U+FE0E",
     "U+FE0F", "U+FE13", "U+FE20", "U+FE21", "U+FE22", "U+FE23", "U+FE24", "U+FE25", "U+FE26",
     "U+FE27", "U+FE28", "U+FE29", "U+FE2A", "U+FE2B", "U+FE2C", "U+FE2D", "U+FE2E", "U+FE2F",
     "U+FE52", "U+FE55", "﻿", "U+FF07", "U+FF0E", "U+FF1A", "U+FF3E", "U+FF40", "U+FF70", "ﾞ",
     "ﾟ", "￣", "￹", "￺", "￻"}

\* The same, written as a surrogate pair.
CaseIgnorableSurrogatePairs ==
    ({"U+D800"} \X
        {"U+DDFD", "U+DEE0", "U+DF76", "U+DF77", "U+DF78", "U+DF79", "U+DF7A"})
    \cup ({"U+D801"} \X
        {"U+DF80", "U+DF81", "U+DF82", "U+DF83", "U+DF84", "U+DF85", "U+DF87", "U+DF88",
         "U+DF89", "U+DF8A", "U+DF8B", "U+DF8C", "U+DF8D", "U+DF8E", "U+DF8F", "U+DF90",
         "U+DF91", "U+DF92", "U+DF93", "U+DF94", "U+DF95", "U+DF96", "U+DF97", "U+DF98",
         "U+DF99", "U+DF9A", "U+DF9B", "U+DF9C", "U+DF9D", "U+DF9E", "U+DF9F", "U+DFA0",
         "U+DFA1", "U+DFA2", "U+DFA3", "U+DFA4", "U+DFA5", "U+DFA6", "U+DFA7", "U+DFA8",
         "U+DFA9", "U+DFAA", "U+DFAB", "U+DFAC", "U+DFAD", "U+DFAE", "U+DFAF", "U+DFB0",
         "U+DFB2", "U+DFB3", "U+DFB4", "U+DFB5", "U+DFB6", "U+DFB7", "U+DFB8", "U+DFB9",
         "U+DFBA"})
    \cup ({"U+D802"} \X
        {"U+DE01", "U+DE02", "U+DE03", "U+DE05", "U+DE06", "U+DE0C", "U+DE0D", "U+DE0E",
         "U+DE0F", "U+DE38", "U+DE39", "U+DE3A", "U+DE3F", "U+DEE5", "U+DEE6"})
    \cup ({"U+D803"} \X
        {"U+DD24", "U+DD25", "U+DD26", "U+DD27", "U+DD4E", "U+DD69", "U+DD6A", "U+DD6B",
         "U+DD6C", "U+DD6D", "U+DD6F", "U+DEAB", "U+DEAC", "U+DEC5", "U+DEFA", "U+DEFB",
         "U+DEFC", "U+DEFD", "U+DEFE", "U+DEFF", "U+DF46", "U+DF47", "U+DF48", "U+DF49",
         "U+DF4A", "U+DF4B", "U+DF4C", "U+DF4D", "U+DF4E", "U+DF4F", "U+DF50", "U+DF82",
         "U+DF83", "U+DF84", "U+DF85"})
    \cup ({"U+D804"} \X
        {"U+DC01", "U+DC38", "U+DC39", "U+DC3A", "U+DC3B", "U+DC3C", "U+DC3D", "U+DC3E",
         "U+DC3F", "U+DC40", "U+DC41", "U+DC42", "U+DC43", "U+DC44", "U+DC45", "U+DC46",
         "U+DC70", "U+DC73", "U+DC74", "U+DC7F", "U+DC80", "U+DC81", "U+DCB3", "U+DCB4",
         "U+DCB5", "U+DCB6", "U+DCB9", "U+DCBA", "U+DCBD", "U+DCC2", "U+DCCD", "U+DD00",
         "U+DD01", "U+DD02", "U+DD27", "U+DD28", "U+DD29", "U+DD2A", "U+DD2B", "U+DD2D",
         "U+DD2E", "U+DD2F", "U+DD30", "U+DD31", "U+DD32", "U+DD33", "U+DD34", "U+DD73",
         "U+DD80", "U+DD81", "U+DDB6", "U+DDB7", "U+DDB8", "U+DDB9", "U+DDBA", "U+DDBB",
         "U+DDBC", "U+DDBD", "U+DDBE", "U+DDC9", "U+DDCA", "U+DDCB", "U+DDCC", "U+DDCF",
         "U+DE2F", "U+DE30", "U+DE31", "U+DE34", "U+DE36", "U+DE37", "U+DE3E", "U+DE41",
         "U+DEDF", "U+DEE3", "U+DEE4", "U+DEE5", "U+DEE6", "U+DEE7", "U+DEE8", "U+DEE9",
         "U+DEEA", "U+DF00", "U+DF01", "U+DF3B", "U+DF3C", "U+DF40", "U+DF66", "U+DF67",
         "U+DF68", "U+DF69", "U+DF6A", "U+DF6B", "U+DF6C", "U+DF70", "U+DF71", "U+DF72",
         "U+DF73", "U+DF74", "U+DFBB", "U+DFBC", "U+DFBD", "U+DFBE", "U+DFBF", "U+DFC0",
         "U+DFCE", "U+DFD0", "U+DFD2", "U+DFE1", "U+DFE2"})
    \cup ({"U+D805"} \X
        {"U+DC38", "U+DC39", "U+DC3A", "U+DC3B", "U+DC3C", "U+DC3D", "U+DC3E", "U+DC3F",
         "U+DC42", "U+DC43", "U+DC44", "U+DC46", "U+DC5E", "U+DCB3", "U+DCB4", "U+DCB5",
         "U+DCB6", "U+DCB7", "U+DCB8", "U+DCBA", "U+DCBF", "U+DCC0", "U+DCC2", "U+DCC3",
         "U+DDB2", "U+DDB3", "U+DDB4", "U+DDB5", "U+DDBC", "U+DDBD", "U+DDBF", "U+DDC0",
         "U+DDDC", "U+DDDD", "U+DE33", "U+DE34", "U+DE35", "U+DE36", "U+DE37", "U+DE38",
         "U+DE39", "U+DE3A", "U+DE3D", "U+DE3F", "U+DE40", "U+DEAB", "U+DEAD", "U+DEB0",
         "U+DEB1", "U+DEB2", "U+DEB3", "U+DEB4", "U+DEB5", "U+DEB7", "U+DF1D", "U+DF1F",
         "U+DF22", "U+DF23", "U+DF24", "U+DF25", "U+DF27", "U+DF28", "U+DF29", "U+DF2A",
         "U+DF2B"})
    \cup ({"U+D806"} \X
        {"U+DC2F", "U+DC30", "U+DC31", "U+DC32", "U+DC33", "U+DC34", "U+DC35", "U+DC36",
         "U+DC37", "U+DC39", "U+DC3A", "U+DD3B", "U+DD3C", "U+DD3E", "U+DD43", "U+DDD4",
         "U+DDD5", "U+DDD6", "U+DDD7", "U+DDDA", "U+DDDB", "U+DDE0", "U+DE01", "U+DE02",
         "U+DE03", "U+DE04", "U+DE05", "U+DE06", "U+DE07", "U+DE08", "U+DE09", "U+DE0A",
         "U+DE33", "U+DE34", "U+DE35", "U+DE36", "U+DE37", "U+DE38", "U+DE3B", "U+DE3C",
         "U+DE3D", "U+DE3E", "U+DE47", "U+DE51", "U+DE52", "U+DE53", "U+DE54", "U+DE55",
         "U+DE56", "U+DE59", "U+DE5A", "U+DE5B", "U+DE8A", "U+DE8B", "U+DE8C", "U+DE8D",
         "U+DE8E", "U+DE8F", "U+DE90", "U+DE91", "U+DE92", "U+DE93", "U+DE94", "U+DE95",
         "U+DE96", "U+DE98", "U+DE99", "U+DF60", "U+DF62", "U+DF63", "U+DF64", "U+DF66"})
    \cup ({"U+D807"} \X
        {"U+DC30", "U+DC31", "U+DC32", "U+DC33", "U+DC34", "U+DC35", "U+DC36", "U+DC38",
         "U+DC39", "U+DC3A", "U+DC3B", "U+DC3C", "U+DC3D", "U+DC3F", "U+DC92", "U+DC93",
         "U+DC94", "U+DC95", "U+DC96", "U+DC97", "U+DC98", "U+DC99", "U+DC9A", "U+DC9B",
         "U+DC9C", "U+DC9D", "U+DC9E", "U+DC9F", "U+DCA0", "U+DCA1", "U+DCA2", "U+DCA3",
         "U+DCA4", "U+DCA5", "U+DCA6", "U+DCA7", "U+DCAA", "U+DCAB", "U+DCAC", "U+DCAD",
         "U+DCAE", "U+DCAF", "U+DCB0", "U+DCB2", "U+DCB3", "U+DCB5", "U+DCB6", "U+DD31",
         "U+DD32", "U+DD33", "U+DD34", "U+DD35", "U+DD36", "U+DD3A", "U+DD3C", "U+DD3D",
         "U+DD3F", "U+DD40", "U+DD41", "U+DD42", "U+DD43", "U+DD44", "U+DD45", "U+DD47",
         "U+DD90", "U+DD91", "U+DD95", "U+DD97", "U+DDD9", "U+DEF3", "U+DEF4", "U+DF00",
         "U+DF01", "U+DF36", "U+DF37", "U+DF38", "U+DF39", "U+DF3A", "U+DF40", "U+DF42",
         "U+DF5A"})
    \cup ({"U+D80D"} \X
        {"U+DC30", "U+DC31", "U+DC32", "U+DC33", "U+DC34", "U+DC35", "U+DC36", "U+DC37",
         "U+DC38", "U+DC39", "U+DC3A", "U+DC3B", "U+DC3C", "U+DC3D", "U+DC3E", "U+DC3F",
         "U+DC40", "U+DC47", "U+DC48", "U+DC49", "U+DC4A", "U+DC4B", "U+DC4C", "U+DC4D",
         "U+DC4E", "U+DC4F", "U+DC50", "U+DC51", "U+DC52", "U+DC53", "U+DC54", "U+DC55"})
    \cup ({"U+D818"} \X
        {"U+DD1E", "U+DD1F", "U+DD20", "U+DD21", "U+DD22", "U+DD23", "U+DD24", "U+DD25",
         "U+DD26", "U+DD27", "U+DD28", "U+DD29", "U+DD2D", "U+DD2E", "U+DD2F"})
    \cup ({"U+D81A"} \X
        {"U+DEF0", "U+DEF1", "U+DEF2", "U+DEF3", "U+DEF4", "U+DF30", "U+DF31", "U+DF32",
         "U+DF33", "U+DF34", "U+DF35", "U+DF36", "U+DF40", "U+DF41", "U+DF42", "U+DF43"})
    \cup ({"U+D81B"} \X
        {"U+DD40", "U+DD41", "U+DD42", "U+DD6B", "U+DD6C", "U+DF4F", "U+DF8F", "U+DF90",
         "U+DF91", "U+DF92", "U+DF93", "U+DF94", "U+DF95", "U+DF96", "U+DF97", "U+DF98",
         "U+DF99", "U+DF9A", "U+DF9B", "U+DF9C", "U+DF9D", "U+DF9E", "U+DF9F", "U+DFE0",
         "U+DFE1", "U+DFE3", "U+DFE4", "U+DFF2", "U+DFF3"})
    \cup ({"U+D82B"} \X
        {"U+DFF0", "U+DFF1", "U+DFF2", "U+DFF3", "U+DFF5", "U+DFF6", "U+DFF7", "U+DFF8",
         "U+DFF9", "U+DFFA", "U+DFFB", "U+DFFD", "U+DFFE"})
    \cup ({"U+D82F"} \X
        {"U+DC9D", "U+DC9E", "U+DCA0", "U+DCA1", "U+DCA2", "U+DCA3"})
    \cup ({"U+D833"} \X
        {"U+DF00", "U+DF01", "U+DF02", "U+DF03", "U+DF04", "U+DF05", "U+DF06", "U+DF07",
         "U+DF08", "U+DF09", "U+DF0A", "U+DF0B", "U+DF0C", "U+DF0D", "U+DF0E", "U+DF0F",
         "U+DF10", "U+DF11", "U+DF12", "U+DF13", "U+DF14", "U+DF15", "U+DF16", "U+DF17",
         "U+DF18", "U+DF19", "U+DF1A", "U+DF1B", "U+DF1C", "U+DF1D", "U+DF1E", "U+DF1F",
         "U+DF20", "U+DF21", "U+DF22", "U+DF23", "U+DF24", "U+DF25", "U+DF26", "U+DF27",
         "U+DF28", "U+DF29", "U+DF2A", "U+DF2B", "U+DF2C", "U+DF2D", "U+DF30", "U+DF31",
         "U+DF32", "U+DF33", "U+DF34", "U+DF35", "U+DF36", "U+DF37", "U+DF38", "U+DF39",
         "U+DF3A", "U+DF3B", "U+DF3C", "U+DF3D", "U+DF3E", "U+DF3F", "U+DF40", "U+DF41",
         "U+DF42", "U+DF43", "U+DF44", "U+DF45", "U+DF46"})
    \cup ({"U+D834"} \X
        {"U+DD67", "U+DD68", "U+DD69", "U+DD73", "U+DD74", "U+DD75", "U+DD76", "U+DD77",
         "U+DD78", "U+DD79", "U+DD7A", "U+DD7B", "U+DD7C", "U+DD7D", "U+DD7E", "U+DD7F",
         "U+DD80", "U+DD81", "U+DD82", "U+DD85", "U+DD86", "U+DD87", "U+DD88", "U+DD89",
         "U+DD8A", "U+DD8B", "U+DDAA", "U+DDAB", "U+DDAC", "U+DDAD", "U+DE42", "U+DE43",
         "U+DE44"})
    \cup ({"U+D836"} \X
        {"U+DE00", "U+DE01", "U+DE02", "U+DE03", "U+DE04", "U+DE05", "U+DE06", "U+DE07",
         "U+DE08", "U+DE09", "U+DE0A", "U+DE0B", "U+DE0C", "U+DE0D", "U+DE0E", "U+DE0F",
         "U+DE10", "U+DE11", "U+DE12", "U+DE13", "U+DE14", "U+DE15", "U+DE16", "U+DE17",
         "U+DE18", "U+DE19", "U+DE1A", "U+DE1B", "U+DE1C", "U+DE1D", "U+DE1E", "U+DE1F",
         "U+DE20", "U+DE21", "U+DE22", "U+DE23", "U+DE24", "U+DE25", "U+DE26", "U+DE27",
         "U+DE28", "U+DE29", "U+DE2A", "U+DE2B", "U+DE2C", "U+DE2D", "U+DE2E", "U+DE2F",
         "U+DE30", "U+DE31", "U+DE32", "U+DE33", "U+DE34", "U+DE35", "U+DE36", "U+DE3B",
         "U+DE3C", "U+DE3D", "U+DE3E", "U+DE3F", "U+DE40", "U+DE41", "U+DE42", "U+DE43",
         "U+DE44", "U+DE45", "U+DE46", "U+DE47", "U+DE48", "U+DE49", "U+DE4A", "U+DE4B",
         "U+DE4C", "U+DE4D", "U+DE4E", "U+DE4F", "U+DE50", "U+DE51", "U+DE52", "U+DE53",
         "U+DE54", "U+DE55", "U+DE56", "U+DE57", "U+DE58", "U+DE59", "U+DE5A", "U+DE5B",
         "U+DE5C", "U+DE5D", "U+DE5E", "U+DE5F", "U+DE60", "U+DE61", "U+DE62", "U+DE63",
         "U+DE64", "U+DE65", "U+DE66", "U+DE67", "U+DE68", "U+DE69", "U+DE6A", "U+DE6B",
         "U+DE6C", "U+DE75", "U+DE84", "U+DE9B", "U+DE9C", "U+DE9D", "U+DE9E", "U+DE9F",
         "U+DEA1", "U+DEA2", "U+DEA3", "U+DEA4", "U+DEA5", "U+DEA6", "U+DEA7", "U+DEA8",
         "U+DEA9", "U+DEAA", "U+DEAB", "U+DEAC", "U+DEAD", "U+DEAE", "U+DEAF"})
    \cup ({"U+D838"} \X
        {"U+DC00", "U+DC01", "U+DC02", "U+DC03", "U+DC04", "U+DC05", "U+DC06", "U+DC08",
         "U+DC09", "U+DC0A", "U+DC0B", "U+DC0C", "U+DC0D", "U+DC0E", "U+DC0F", "U+DC10",
         "U+DC11", "U+DC12", "U+DC13", "U+DC14", "U+DC15", "U+DC16", "U+DC17", "U+DC18",
         "U+DC1B", "U+DC1C", "U+DC1D", "U+DC1E", "U+DC1F", "U+DC20", "U+DC21", "U+DC23",
         "U+DC24", "U+DC26", "U+DC27", "U+DC28", "U+DC29", "U+DC2A", "U+DC30", "U+DC31",
         "U+DC32", "U+DC33", "U+DC34", "U+DC35", "U+DC36", "U+DC37", "U+DC38", "U+DC39",
         "U+DC3A", "U+DC3B", "U+DC3C", "U+DC3D", "U+DC3E", "U+DC3F", "U+DC40", "U+DC41",
         "U+DC42", "U+DC43", "U+DC44", "U+DC45", "U+DC46", "U+DC47", "U+DC48", "U+DC49",
         "U+DC4A", "U+DC4B", "U+DC4C", "U+DC4D", "U+DC4E", "U+DC4F", "U+DC50", "U+DC51",
         "U+DC52", "U+DC53", "U+DC54", "U+DC55", "U+DC56", "U+DC57", "U+DC58", "U+DC59",
         "U+DC5A", "U+DC5B", "U+DC5C", "U+DC5D", "U+DC5E", "U+DC5F", "U+DC60", "U+DC61",
         "U+DC62", "U+DC63", "U+DC64", "U+DC65", "U+DC66", "U+DC67", "U+DC68", "U+DC69",
         "U+DC6A", "U+DC6B", "U+DC6C", "U+DC6D", "U+DC8F", "U+DD30", "U+DD31", "U+DD32",
         "U+DD33", "U+DD34", "U+DD35", "U+DD36", "U+DD37", "U+DD38", "U+DD39", "U+DD3A",
         "U+DD3B", "U+DD3C", "U+DD3D", "U+DEAE", "U+DEEC", "U+DEED", "U+DEEE", "U+DEEF"})
    \cup ({"U+D839"} \X
        {"U+DCEB", "U+DCEC", "U+DCED", "U+DCEE", "U+DCEF", "U+DDEE", "U+DDEF", "U+DEE3",
         "U+DEE6", "U+DEEE", "U+DEEF", "U+DEF5", "U+DEFF"})
    \cup ({"U+D83A"} \X
        {"U+DCD0", "U+DCD1", "U+DCD2", "U+DCD3", "U+DCD4", "U+DCD5", "U+DCD6", "U+DD44",
         "U+DD45", "U+DD46", "U+DD47", "U+DD48", "U+DD49", "U+DD4A", "U+DD4B"})
    \cup ({"U+D83C"} \X
        {"U+DFFB", "U+DFFC", "U+DFFD", "U+DFFE", "U+DFFF"})
    \cup ({"U+DB40"} \X
        {"U+DC01", "U+DC20", "U+DC21", "U+DC22", "U+DC23", "U+DC24", "U+DC25", "U+DC26",
         "U+DC27", "U+DC28", "U+DC29", "U+DC2A", "U+DC2B", "U+DC2C", "U+DC2D", "U+DC2E",
         "U+DC2F", "U+DC30", "U+DC31", "U+DC32", "U+DC33", "U+DC34", "U+DC35", "U+DC36",
         "U+DC37", "U+DC38", "U+DC39", "U+DC3A", "U+DC3B", "U+DC3C", "U+DC3D", "U+DC3E",
         "U+DC3F", "U+DC40", "U+DC41", "U+DC42", "U+DC43", "U+DC44", "U+DC45", "U+DC46",
         "U+DC47", "U+DC48", "U+DC49", "U+DC4A", "U+DC4B", "U+DC4C", "U+DC4D", "U+DC4E",
         "U+DC4F", "U+DC50", "U+DC51", "U+DC52", "U+DC53", "U+DC54", "U+DC55", "U+DC56",
         "U+DC57", "U+DC58", "U+DC59", "U+DC5A", "U+DC5B", "U+DC5C", "U+DC5D", "U+DC5E",
         "U+DC5F", "U+DC60", "U+DC61", "U+DC62", "U+DC63", "U+DC64", "U+DC65", "U+DC66",
         "U+DC67", "U+DC68", "U+DC69", "U+DC6A", "U+DC6B", "U+DC6C", "U+DC6D", "U+DC6E",
         "U+DC6F", "U+DC70", "U+DC71", "U+DC72", "U+DC73", "U+DC74", "U+DC75", "U+DC76",
         "U+DC77", "U+DC78", "U+DC79", "U+DC7A", "U+DC7B", "U+DC7C", "U+DC7D", "U+DC7E",
         "U+DC7F", "U+DD00", "U+DD01", "U+DD02", "U+DD03", "U+DD04", "U+DD05", "U+DD06",
         "U+DD07", "U+DD08", "U+DD09", "U+DD0A", "U+DD0B", "U+DD0C", "U+DD0D", "U+DD0E",
         "U+DD0F", "U+DD10", "U+DD11", "U+DD12", "U+DD13", "U+DD14", "U+DD15", "U+DD16",
         "U+DD17", "U+DD18", "U+DD19", "U+DD1A", "U+DD1B", "U+DD1C", "U+DD1D", "U+DD1E",
         "U+DD1F", "U+DD20", "U+DD21", "U+DD22", "U+DD23", "U+DD24", "U+DD25", "U+DD26",
         "U+DD27", "U+DD28", "U+DD29", "U+DD2A", "U+DD2B", "U+DD2C", "U+DD2D", "U+DD2E",
         "U+DD2F", "U+DD30", "U+DD31", "U+DD32", "U+DD33", "U+DD34", "U+DD35", "U+DD36",
         "U+DD37", "U+DD38", "U+DD39", "U+DD3A", "U+DD3B", "U+DD3C", "U+DD3D", "U+DD3E",
         "U+DD3F", "U+DD40", "U+DD41", "U+DD42", "U+DD43", "U+DD44", "U+DD45", "U+DD46",
         "U+DD47", "U+DD48", "U+DD49", "U+DD4A", "U+DD4B", "U+DD4C", "U+DD4D", "U+DD4E",
         "U+DD4F", "U+DD50", "U+DD51", "U+DD52", "U+DD53", "U+DD54", "U+DD55", "U+DD56",
         "U+DD57", "U+DD58", "U+DD59", "U+DD5A", "U+DD5B", "U+DD5C", "U+DD5D", "U+DD5E",
         "U+DD5F", "U+DD60", "U+DD61", "U+DD62", "U+DD63", "U+DD64", "U+DD65", "U+DD66",
         "U+DD67", "U+DD68", "U+DD69", "U+DD6A", "U+DD6B", "U+DD6C", "U+DD6D", "U+DD6E",
         "U+DD6F", "U+DD70", "U+DD71", "U+DD72", "U+DD73", "U+DD74", "U+DD75", "U+DD76",
         "U+DD77", "U+DD78", "U+DD79", "U+DD7A", "U+DD7B", "U+DD7C", "U+DD7D", "U+DD7E",
         "U+DD7F", "U+DD80", "U+DD81", "U+DD82", "U+DD83", "U+DD84", "U+DD85", "U+DD86",
         "U+DD87", "U+DD88", "U+DD89", "U+DD8A", "U+DD8B", "U+DD8C", "U+DD8D", "U+DD8E",
         "U+DD8F", "U+DD90", "U+DD91", "U+DD92", "U+DD93", "U+DD94", "U+DD95", "U+DD96",
         "U+DD97", "U+DD98", "U+DD99", "U+DD9A", "U+DD9B", "U+DD9C", "U+DD9D", "U+DD9E",
         "U+DD9F", "U+DDA0", "U+DDA1", "U+DDA2", "U+DDA3", "U+DDA4", "U+DDA5", "U+DDA6",
         "U+DDA7", "U+DDA8", "U+DDA9", "U+DDAA", "U+DDAB", "U+DDAC", "U+DDAD", "U+DDAE",
         "U+DDAF", "U+DDB0", "U+DDB1", "U+DDB2", "U+DDB3", "U+DDB4", "U+DDB5", "U+DDB6",
         "U+DDB7", "U+DDB8", "U+DDB9", "U+DDBA", "U+DDBB", "U+DDBC", "U+DDBD", "U+DDBE",
         "U+DDBF", "U+DDC0", "U+DDC1", "U+DDC2", "U+DDC3", "U+DDC4", "U+DDC5", "U+DDC6",
         "U+DDC7", "U+DDC8", "U+DDC9", "U+DDCA", "U+DDCB", "U+DDCC", "U+DDCD", "U+DDCE",
         "U+DDCF", "U+DDD0", "U+DDD1", "U+DDD2", "U+DDD3", "U+DDD4", "U+DDD5", "U+DDD6",
         "U+DDD7", "U+DDD8", "U+DDD9", "U+DDDA", "U+DDDB", "U+DDDC", "U+DDDD", "U+DDDE",
         "U+DDDF", "U+DDE0", "U+DDE1", "U+DDE2", "U+DDE3", "U+DDE4", "U+DDE5", "U+DDE6",
         "U+DDE7", "U+DDE8", "U+DDE9", "U+DDEA", "U+DDEB", "U+DDEC", "U+DDED", "U+DDEE",
         "U+DDEF"})

\* The code point of position j is a cased letter and not case-ignorable.
isCasedAt(name, j) ==
    \/ name[j] \in CasedUnits
    \/ (j < Len(name) /\ <<name[j], name[j + 1]>> \in CasedSurrogatePairs)
    \/ (j > 1 /\ <<name[j - 1], name[j]>> \in CasedSurrogatePairs)

\* The code point of position j is case-ignorable.
isCaseIgnorableAt(name, j) ==
    \/ name[j] \in CaseIgnorableUnits
    \/ (j < Len(name) /\ <<name[j], name[j + 1]>> \in CaseIgnorableSurrogatePairs)
    \/ (j > 1 /\ <<name[j - 1], name[j]>> \in CaseIgnorableSurrogatePairs)

\* Final_Sigma: a cased letter comes before position k, with nothing but
\* case-ignorable characters in between, and no cased letter comes after it
\* in that way.  A character that is both cased and case-ignorable is passed
\* over as case-ignorable.
isFinalSigma(name, k) ==
    /\ \E j \in 1 .. k - 1 :
           /\ isCasedAt(name, j)
           /\ \A n \in j + 1 .. k - 1 : isCaseIgnorableAt(name, n)
    /\ ~\E j \in k + 1 .. Len(name) :
           /\ isCasedAt(name, j)
           /\ \A n \in k + 1 .. j - 1 : isCaseIgnorableAt(name, n)

\* The lower-case form of a code unit that is not part of a surrogate pair
\* and is not a capital sigma.
lowerOfUnit(ch) ==
    IF ch = "U+0130" THEN <<"i", "U+0307">>
    ELSE IF \E p \in LowerCasePairs : p[1] = ch
    THEN <<(CHOOSE p \in LowerCasePairs : p[1] = ch)[2]>>
    ELSE <<ch>>

\* String.prototype.toLowerCase from position k on.
RECURSIVE lowerFrom(_, _)
lowerFrom(name, k) ==
    IF k > Len(name) THEN <<>>
    ELSE IF name[k] \in PlainAscii THEN <<name[k]>> \o lowerFrom(name, k + 1)
    ELSE IF name[k] \in DOMAIN LowerCaseOf
    THEN <<LowerCaseOf[name[k]]>> \o lowerFrom(name, k + 1)
    ELSE IF /\ k < Len(name)
            /\ \E p \in LowerCaseSurrogatePairs : p[1] = <<name[k], name[k + 1]>>
    THEN (CHOOSE p \in LowerCaseSurrogatePairs : p[1] = <<name[k], name[k + 1]>>)[2]
             \o lowerFrom(name, k + 2)
    ELSE IF name[k] = "Σ"
    THEN <<IF isFinalSigma(name, k) THEN "ς" ELSE "σ">> \o lowerFrom(name, k + 1)
    ELSE lowerOfUnit(name[k]) \o lowerFrom(name, k + 1)

\* String.prototype.toLowerCase
toLowerCase(name) == lowerFrom(name, 1)

(***************************************************************************)
(* Strings as sequences of characters, and the String methods used.        *)
(***************************************************************************)
\* The team names of the rules, as strings of characters.
foundation == <<"f", "o", "u", "n", "d", "a", "t", "i", "o", "n">>
platform == <<"p", "l", "a", "t", "f", "o", "r", "m">>
consumer == <<"c", "o", "n", "s", "u", "m", "e", "r">>
docs == <<"d", "o", "c", "s">>
Foundation == <<"F", "o", "u", "n", "d", "a", "t", "i", "o", "n">>
Platform == <<"P", "l", "a", "t", "f", "o", "r", "m">>
Consumer == <<"C", "o", "n", "s", "u", "m", "e", "r">>
FOUNDATION == <<"F", "O", "U", "N", "D", "A", "T", "I", "O", "N">>

Last(s) == s[Len(s)]

\* A plausible slip: startsWith in the place of includes.
includesAtStart(s, sub) ==
    /\ Len(sub) <= Len(s)
    /\ \A n \in 1 .. Len(sub) : s[n] = sub[n]

\* String.prototype.includes: `sub` occurs in `s` as a contiguous run.
includes(s, sub) ==
    \E k \in 0 .. (Len(s) - Len(sub)) :
        \A n \in 1 .. Len(sub) : s[k + n] = sub[n]

\* String.prototype.split(sep) for a one-character separator: the pieces
\* between the separators, empty pieces kept ("" splits to one empty piece).
RECURSIVE splitFrom(_, _, _, _)
splitFrom(s, sep, k, piece) ==
    IF k > Len(s) THEN <<piece>>
    ELSE IF s[k] = sep THEN <<piece>> \o splitFrom(s, sep, k + 1, <<>>)
    ELSE splitFrom(s, sep, k + 1, Append(piece, s[k]))

split(s, sep) == splitFrom(s, sep, 1, <<>>)

(***************************************************************************)
(* PatternCompiler: parsePattern (common.ts).  The regular expression is   *)
(* kept as the sequence of pieces pushed on `re`, without the anchors;     *)
(* test is an anchored match of the whole path.                            *)
(***************************************************************************)
separator == "/"

Piece(kind, ch) == [t |-> kind, c |-> ch]
AnyPlus       == Piece(".+", "")           \* .+
\* A plausible slip: the leading ** compiled to a separator that must be there.
LeadingSeparator == Piece("lit", "/")
OptLeadingDir == Piece("(?:.+/)?", "")     \* (?:.+/)?
SlashAny      == Piece("/.*", "")          \* /.*
OptSlashPlus  == Piece("(?:/.+)?", "")     \* (?:/.+)?
OptSlashAny   == Piece("(?:/.*)?", "")     \* (?:/.*)?
Slash         == Piece("lit", separator)   \* /
NonSepPlus    == Piece("[^/]+", "")        \* [^/]+
NonSepStar    == Piece("[^/]*", "")        \* [^/]*
NonSep        == Piece("[^/]", "")         \* [^/]
Literal(ch)   == Piece("lit", ch)          \* ch, escaped where the syntax needs it

\* The characters `.` matches: all but the line terminators.
Dot(ch) == ch \notin LineTerminators

\* The default branch's loop over the characters of a segment.
RECURSIVE segmentPieces(_, _, _)
segmentPieces(seg, k, escape) ==
    IF k > Len(seg) THEN <<>>
    ELSE IF escape THEN <<Literal(seg[k])>> \o segmentPieces(seg, k + 1, FALSE)
    ELSE IF seg[k] = "\\" THEN segmentPieces(seg, k + 1, TRUE)
    ELSE IF seg[k] = "*" THEN <<NonSepStar>> \o segmentPieces(seg, k + 1, FALSE)
    ELSE IF seg[k] = "?" THEN <<NonSep>> \o segmentPieces(seg, k + 1, FALSE)
    ELSE <<Literal(seg[k])>> \o segmentPieces(seg, k + 1, FALSE)

\* segments.forEach: the pieces from segment i on (1-based), given needSlash.
RECURSIVE segmentsLoop(_, _, _)
segmentsLoop(segments, i, needSlash) ==
    LET lastSegIndex == Len(segments)
        seg == segments[i]
        lead == IF needSlash THEN <<Slash>> ELSE <<>>
    IN  IF i > lastSegIndex THEN <<>>
        ELSE IF seg = <<"*", "*">> THEN
            IF i = 1 /\ i = lastSegIndex THEN
                <<AnyPlus>> \o segmentsLoop(segments, i + 1, needSlash)
            ELSE IF i = 1 THEN
                <<OptLeadingDir>> \o segmentsLoop(segments, i + 1, FALSE)
            ELSE IF i = lastSegIndex THEN
                <<SlashAny>> \o segmentsLoop(segments, i + 1, needSlash)
            ELSE
                <<OptSlashPlus>> \o segmentsLoop(segments, i + 1, TRUE)
        ELSE IF seg = <<"*">> THEN
            lead \o <<NonSepPlus>> \o segmentsLoop(segments, i + 1, TRUE)
        ELSE
            lead \o segmentPieces(seg, 1, FALSE)
                 \o (IF i = lastSegIndex THEN <<OptSlashAny>> ELSE <<>>)
                 \o segmentsLoop(segments, i + 1, TRUE)

\* A plausible slip: a single segment left anchored at the root.
anchoredSegmentsRooted(pattern) ==
    LET segments == split(pattern, separator)
    IN  IF segments[1] = <<>> THEN Tail(segments) ELSE segments

\* The segment list after the leading-slash and single-segment rules.
anchoredSegments(pattern) ==
    LET segments == split(pattern, separator)
    IN  IF segments[1] = <<>> THEN Tail(segments)
        ELSE IF Len(segments) = 1 \/ (Len(segments) = 2 /\ segments[2] = <<>>)
        THEN IF segments[1] # <<"*", "*">>
             THEN <<(<<"*", "*">>)>> \o segments
             ELSE segments
        ELSE segments

\* A plausible slip: the trailing-slash rule left out.
patternSegmentsKeepSlash(pattern) == anchoredSegments(pattern)

\* ... and after the trailing-slash rule.
patternSegments(pattern) ==
    LET segments == anchoredSegments(pattern)
    IN  IF Len(segments) > 1 /\ Last(segments) = <<>>
        THEN [segments EXCEPT ![Len(segments)] = <<"*", "*">>]
        ELSE segments

parsePattern(pattern) ==
    IF includes(pattern, <<"*", "*", "*">>)
    THEN [ok |-> FALSE, re |-> <<>>,
          error |-> "pattern cannot contain three consecutive asterisks"]
    ELSE IF pattern = <<>>
    THEN [ok |-> FALSE, re |-> <<>>, error |-> "empty pattern"]
    ELSE IF pattern = <<"/">>
    THEN [ok |-> TRUE, re |-> <<>>, error |-> ""]
    ELSE [ok |-> TRUE, re |-> segmentsLoop(patternSegments(pattern), 1, FALSE),
          error |-> ""]

\* RegExp.prototype.test for ^re$: the pieces from i on match path from j to
\* its end.
RECURSIVE matchFrom(_, _, _, _)
matchFrom(re, i, path, j) ==
    LET n == Len(path)
        rest(k) == matchFrom(re, i + 1, path, k)
        dots(a, b) == \A x \in a .. b : Dot(path[x])
        nonSeps(a, b) == \A x \in a .. b : path[x] # separator
        slashAt(k) == k <= n /\ path[k] = separator
    IN  IF i > Len(re) THEN j = n + 1
        ELSE CASE re[i].t = "lit" ->
                    j <= n /\ path[j] = re[i].c /\ rest(j + 1)
               [] re[i].t = ".+" ->
                    \E k \in (j + 1) .. (n + 1) : dots(j, k - 1) /\ rest(k)
               [] re[i].t = "(?:.+/)?" ->
                    \/ rest(j)
                    \/ \E k \in (j + 1) .. n :
                          dots(j, k - 1) /\ slashAt(k) /\ rest(k + 1)
               [] re[i].t = "/.*" ->
                    slashAt(j) /\ \E k \in (j + 1) .. (n + 1) :
                                     dots(j + 1, k - 1) /\ rest(k)
               [] re[i].t = "(?:/.+)?" ->
                    \/ rest(j)
                    \/ slashAt(j) /\ \E k \in (j + 2) .. (n + 1) :
                                        dots(j + 1, k - 1) /\ rest(k)
               [] re[i].t = "(?:/.*)?" ->
                    \/ rest(j)
                    \/ slashAt(j) /\ \E k \in (j + 1) .. (n + 1) :
                                        dots(j + 1, k - 1) /\ rest(k)
               [] re[i].t = "[^/]+" ->
                    \E k \in (j + 1) .. (n + 1) : nonSeps(j, k - 1) /\ rest(k)
               [] re[i].t = "[^/]*" ->
                    \E k \in j .. (n + 1) : nonSeps(j, k - 1) /\ rest(k)
               [] re[i].t = "[^/]" ->
                    j <= n /\ path[j] # separator /\ rest(j + 1)

test(re, path) == matchFrom(re, 1, path, 1)

(***************************************************************************)
(* OwnershipIndex: getCodeOwnerTeams (common.ts).  requiredTeams is the    *)
(* Set in insertion order; a pattern error leaves the loops at once.       *)
(***************************************************************************)
\* A plausible slip: the last matching rule overrides the earlier ones.
addTeamsOverride(requiredTeams, teams, k) == teams

\* rule.teams.forEach((team) => requiredTeams.add(team))
RECURSIVE addTeams(_, _, _)
addTeams(requiredTeams, teams, k) ==
    IF k > Len(teams) THEN requiredTeams
    ELSE addTeams(IF \E x \in 1 .. Len(requiredTeams) : requiredTeams[x] = teams[k]
                  THEN requiredTeams
                  ELSE Append(requiredTeams, teams[k]),
                  teams, k + 1)

\* for (const rule of codeownerRules) for one file, from rule r on.
RECURSIVE rulesLoop(_, _, _, _)
rulesLoop(file, codeownerRules, r, requiredTeams) ==
    IF r > Len(codeownerRules) THEN [ok |-> TRUE, teams |-> requiredTeams, error |-> ""]
    ELSE LET rule == codeownerRules[r]
             compiled == parsePattern(rule.pattern)
         IN  IF ~compiled.ok
             THEN [ok |-> FALSE, teams |-> <<>>, error |-> compiled.error]
             ELSE rulesLoop(file, codeownerRules, r + 1,
                            IF test(compiled.re, file.filename)
                            THEN addTeams(requiredTeams, rule.teams, 1)
                            ELSE requiredTeams)

\* for (const file of files), from file f on.
RECURSIVE filesLoop(_, _, _, _)
filesLoop(files, codeownerRules, f, requiredTeams) ==
    IF f > Len(files) THEN [ok |-> TRUE, teams |-> requiredTeams, error |-> ""]
    ELSE LET inner == rulesLoop(files[f], codeownerRules, 1, requiredTeams)
         IN  IF ~inner.ok THEN inner
             ELSE filesLoop(files, codeownerRules, f + 1, inner.teams)

getCodeOwnerTeams(files, codeownerRules) ==
    filesLoop(files, codeownerRules, 1, <<>>)


(***************************************************************************)
(* Specification of getBusinessDays.                                       *)
(***************************************************************************)
DaysInit ==
    /\ startDate \in Instants
    /\ endDate \in Instants
    /\ businessDays = NotComputed
    /\ CODEOWNER_RULES = <<>>
    /\ OwnersIdle
    /\ MetricsIdle
    /\ ClassifyIdle
    /\ FetchIdle
    /\ BatchIdle
    /\ OrgIdle
    /\ PrintIdle
    /\ PatternIdle
    /\ ParseIdle
    /\ AttentionIdle
    /\ RunIdle

CallGetBusinessDays ==
    /\ businessDays = NotComputed
    /\ businessDays' = getBusinessDays(startDate, endDate)
    /\ UNCHANGED <<startDate, endDate, CODEOWNER_RULES, ownersVars, metricsVars,
                   classifyVars,
                   fetchVars, batchVars, orgVars, printVars,
                   patternVars, parseVars, attentionVars, runVars>>

DaysNext == CallGetBusinessDays

SpecDays == DaysInit /\ [][DaysNext]_vars

(***************************************************************************)
(* Specification of getCodeOwnerTeams: one call on a rule list as          *)
(* parseCodeowners leaves it (patterns without white space, teams          *)
(* non-empty) and a list of changed files.                                 *)
(***************************************************************************)
\* "readme", "/d/", "d/*", "**/x", "*" and the malformed "***".
SamplePatterns ==
    { <<"r">>, <<"/", "d", "/">>, <<"d", "/", "*">>, <<"*", "*", "/", "x">>,
      <<"*">>, <<"*", "*", "*">> }

SampleTeamLists ==
    { <<foundation>>, <<platform, foundation>>, <<Consumer>> }

SampleRules == [pattern : SamplePatterns, teams : SampleTeamLists]

\* "r", "d/r", "d/x", "dx/x", "x".
SamplePaths ==
    { <<"r">>, <<"d", "/", "r">>, <<"d", "/", "x">>, <<"d", "x", "/", "x">>,
      <<"x">> }

File(path) == [filename |-> path]

SampleFileLists ==
    {<<>>} \cup {<<File(a)>> : a \in SamplePaths}
           \cup {<<File(a), File(b)>> : a \in SamplePaths, b \in {<<"r">>, <<"d", "/", "x">>}}

OwnersInit ==
    /\ CODEOWNER_RULES \in SeqsUpTo(SampleRules, MaxRules)
    /\ changedFiles \in SampleFileLists
    /\ codeOwnerTeams = NotCalled
    /\ DaysIdle
    /\ MetricsIdle
    /\ ClassifyIdle
    /\ FetchIdle
    /\ BatchIdle
    /\ OrgIdle
    /\ PrintIdle
    /\ PatternIdle
    /\ ParseIdle
    /\ AttentionIdle
    /\ RunIdle

CallGetCodeOwnerTeams ==
    /\ codeOwnerTeams = NotCalled
    /\ codeOwnerTeams' = getCodeOwnerTeams(changedFiles, CODEOWNER_RULES)
    /\ UNCHANGED <<CODEOWNER_RULES, changedFiles, daysVars, metricsVars, classifyVars,
                   fetchVars, batchVars, orgVars, printVars,
                   patternVars, parseVars, attentionVars, runVars>>

OwnersNext == CallGetCodeOwnerTeams

SpecOwners == OwnersInit /\ [][OwnersNext]_vars


(***************************************************************************)
(* Specification of the pattern compiler: parsePattern on a pattern, then  *)
(* test of the returned RegExp on a path.  Patterns and paths are all the  *)
(* strings over a small alphabet up to a length.                           *)
(***************************************************************************)
PatternChars == {"d", "/", "*", "?"}
PathChars == {"d", "x", "/"}

Patterns == SeqsUpTo(PatternChars, MaxPatternLen)
\* Paths over the plain characters, and short ones that hold a line
\* terminator as well.
Paths ==
    SeqsUpTo(PathChars, MaxPathLen)
        \cup SeqsUpTo(PathChars \cup {"U+2028"}, MaxTerminatorPathLen)

PatternInit ==
    /\ patternArg \in Patterns
    /\ pathArg = <<>>
    /\ regexp = NotCompiled
    /\ testResult = NotTested
    /\ CODEOWNER_RULES = <<>>
    /\ DaysIdle
    /\ OwnersIdle
    /\ MetricsIdle
    /\ ClassifyIdle
    /\ FetchIdle
    /\ BatchIdle
    /\ OrgIdle
    /\ PrintIdle
    /\ ParseIdle
    /\ AttentionIdle
    /\ RunIdle

patternOthers == <<CODEOWNER_RULES, daysVars, ownersVars, metricsVars, classifyVars,
                   fetchVars, batchVars, orgVars, printVars, parseVars, attentionVars, runVars>>

CallParsePattern ==
    /\ regexp = NotCompiled
    /\ regexp' = parsePattern(patternArg)
    /\ UNCHANGED <<patternArg, pathArg, testResult, patternOthers>>

CallTest ==
    /\ regexp.ok
    /\ ~testResult.called
    /\ \E path \in Paths :
           /\ pathArg' = path
           /\ testResult' = [called |-> TRUE, value |-> test(regexp.re, path)]
    /\ UNCHANGED <<patternArg, regexp, patternOthers>>

PatternNext == CallParsePattern \/ CallTest

SpecPattern == PatternInit /\ [][PatternNext]_vars

(***************************************************************************)
(* RuleFileParser: parseCodeowners (common.ts).                            *)
(***************************************************************************)
\* "@calcom/"
TeamPrefix == <<"@", "c", "a", "l", "c", "o", "m", "/">>

\* String.prototype.trim
RECURSIVE trimStart(_)
trimStart(s) ==
    IF s # <<>> /\ s[1] \in WhiteSpace THEN trimStart(Tail(s)) ELSE s

RECURSIVE trimEnd(_)
trimEnd(s) ==
    IF s # <<>> /\ Last(s) \in WhiteSpace THEN trimEnd(SubSeq(s, 1, Len(s) - 1)) ELSE s

trim(s) == trimEnd(trimStart(s))

\* String.prototype.startsWith
startsWith(s, prefix) ==
    /\ Len(prefix) <= Len(s)
    /\ \A n \in 1 .. Len(prefix) : s[n] = prefix[n]

\* String.prototype.split(/\s+/): the pieces between the runs of white
\* space, from character k on with the piece read so far.
RECURSIVE splitWhiteSpaceFrom(_, _, _)
splitWhiteSpaceFrom(s, k, piece) ==
    IF k > Len(s) THEN <<piece>>
    ELSE IF s[k] \in WhiteSpace
    THEN IF k > 1 /\ s[k - 1] \in WhiteSpace
         THEN splitWhiteSpaceFrom(s, k + 1, piece)
         ELSE <<piece>> \o splitWhiteSpaceFrom(s, k + 1, <<>>)
    ELSE splitWhiteSpaceFrom(s, k + 1, Append(piece, s[k]))

splitWhiteSpace(s) == splitWhiteSpaceFrom(s, 1, <<>>)

\* String.prototype.replace(sub, ""): the first occurrence of sub taken out.
removeFirst(s, sub) ==
    LET at == {k \in 0 .. (Len(s) - Len(sub)) : \A n \in 1 .. Len(sub) : s[k + n] = sub[n]}
        first == CHOOSE k \in at : \A other \in at : k <= other
    IN  IF at = {} THEN s
        ELSE SubSeq(s, 1, first) \o SubSeq(s, first + Len(sub) + 1, Len(s))

\* A plausible slip: every owner kept, team or not.
teamsOfAll(owners) ==
    [k \in 1 .. Len(owners) |-> removeFirst(owners[k], TeamPrefix)]

\* owners.filter(startsWith("@calcom/")).map(replace("@calcom/", ""))
teamsOf(owners) ==
    LET kept == SelectSeq(owners, LAMBDA owner : startsWith(owner, TeamPrefix))
    IN  [k \in 1 .. Len(kept) |-> removeFirst(kept[k], TeamPrefix)]

\* The body of the for loop for one line: the rule pushed, if any.
rulesOfLine(line) ==
    LET trimmed == trim(line)
        tokens == splitWhiteSpace(trimmed)
        teams == teamsOf(Tail(tokens))
    IN  IF trimmed = <<>> \/ startsWith(trimmed, <<"#">>) THEN <<>>
        ELSE IF Len(teams) > 0 THEN <<[pattern |-> tokens[1], teams |-> teams]>>
        ELSE <<>>

RECURSIVE linesLoop(_, _)
linesLoop(lines, k) ==
    IF k > Len(lines) THEN <<>>
    ELSE rulesOfLine(lines[k]) \o linesLoop(lines, k + 1)

parseCodeowners(text) == linesLoop(split(text, "\n"), 1)

(***************************************************************************)
(* Specification of parseCodeowners: one call on a file of up to MaxLines  *)
(* lines drawn from a catalogue.                                           *)
(***************************************************************************)
TeamA == TeamPrefix \o <<"a">>
TeamB == TeamPrefix \o <<"b">>

SampleLines ==
    { <<>>,                                            \* blank
      <<" ", "\t", "\f", "U+2028">>,                   \* white space only
      <<"#", " ", "d", " ">> \o TeamA,                 \* # d @calcom/a
      <<" ", "#", "d", " ">> \o TeamA,                 \*  #d @calcom/a
      <<"d", " ">> \o TeamA,                           \* d @calcom/a
      <<"*", " ", "@", "u">>,                          \* * @u
      <<"x", " ", "@", "u", "\f">> \o TeamB \o <<" ", "U+3000">> \o TeamA,
                                                       \* x @u\f@calcom/b  @calcom/a, the second gap a space and U+3000
      <<"d">>,                                         \* d
      <<"\t", "d", "\t">> \o TeamA \o <<"\r">>,        \* tabs and a carriage return
      TeamA \o <<" ">> \o TeamB,                       \* @calcom/a @calcom/b
      <<"d", " ">> \o TeamPrefix,                      \* d @calcom/
      <<"d", " ", "x">> \o TeamA }                     \* d x@calcom/a

RECURSIVE joinLines(_)
joinLines(lines) ==
    IF Len(lines) = 0 THEN <<>>
    ELSE IF Len(lines) = 1 THEN lines[1]
    ELSE lines[1] \o <<"\n">> \o joinLines(Tail(lines))

SampleFiles == {joinLines(lines) : lines \in SeqsUpTo(SampleLines, MaxLines)}

ParseInit ==
    /\ codeowners \in SampleFiles
    /\ parsedRules = NotParsed
    /\ CODEOWNER_RULES = <<>>
    /\ DaysIdle
    /\ OwnersIdle
    /\ MetricsIdle
    /\ ClassifyIdle
    /\ FetchIdle
    /\ BatchIdle
    /\ OrgIdle
    /\ PrintIdle
    /\ PatternIdle
    /\ AttentionIdle
    /\ RunIdle

CallParseCodeowners ==
    /\ ~parsedRules.called
    /\ parsedRules' = [called |-> TRUE, rules |-> parseCodeowners(codeowners)]
    /\ UNCHANGED <<codeowners, CODEOWNER_RULES, daysVars, ownersVars, metricsVars,
                   classifyVars, fetchVars, batchVars, orgVars, printVars, patternVars,
                   attentionVars, runVars>>

ParseNext == CallParseCodeowners

SpecParse == ParseInit /\ [][ParseNext]_vars

(***************************************************************************)
(* MetricsCalculator: calculateMetrics (common.ts), after its two fetches  *)
(* have resolved.  A review is [user, state, submitted_at] with user the   *)
(* author's login; a comment is [user, created_at].                        *)
(***************************************************************************)
ReviewStates == {"PENDING", "APPROVED", "CHANGES_REQUESTED", "COMMENTED"}

\* The accumulator of the reduce is a plain object {}: read at one of these
\* names it gives what every object inherits from Object.prototype, a value
\* that is truthy although no review was stored.
ObjectPrototypeNames ==
    {"constructor", "toString", "toLocaleString", "valueOf", "hasOwnProperty",
     "isPrototypeOf", "propertyIsEnumerable", "__proto__", "__defineGetter__",
     "__defineSetter__", "__lookupGetter__", "__lookupSetter__"}

\* acc with the review stored under its author's login.
stored(acc, review) ==
    [u \in DOMAIN acc \cup {review.user} |->
        IF u = review.user THEN review ELSE acc[u]]

\* A plausible slip: a review as recent as the kept one replaces it.
keepLatestOrEqual(acc, review) ==
    IF review.user \in DOMAIN acc
    THEN IF review.submitted_at >= acc[review.user].submitted_at
         THEN stored(acc, review) ELSE acc
    ELSE IF review.user \in ObjectPrototypeNames THEN acc
    ELSE stored(acc, review)

\* The reduce callback: keep the review when !acc[login], or when it is
\* strictly later than the one kept.  For a login of ObjectPrototypeNames
\* acc[login] is the inherited value: !acc[login] is false, the date of its
\* submitted_at (undefined) is invalid and compares false, so the review is
\* not kept.
keepLatest(acc, review) ==
    IF review.user \in DOMAIN acc
    THEN IF review.submitted_at > acc[review.user].submitted_at
         THEN stored(acc, review) ELSE acc
    ELSE IF review.user \in ObjectPrototypeNames THEN acc
    ELSE stored(acc, review)

\* reviews.reduce(..., {}) from review k on.
RECURSIVE reduceReviews(_, _, _)
reduceReviews(reviewList, k, acc) ==
    IF k > Len(reviewList) THEN acc
    ELSE reduceReviews(reviewList, k + 1, keepLatest(acc, reviewList[k]))

latestReviewsByUser(reviewList) == reduceReviews(reviewList, 1, <<>>)

\* A plausible slip (the older scripts do this): every review counts.
activeReviewsAll(reviewList) == {reviewList[k] : k \in 1 .. Len(reviewList)}

\* Object.values(latestReviewsByUser)
activeReviews(reviewList) ==
    LET latest == latestReviewsByUser(reviewList)
    IN  {latest[u] : u \in DOMAIN latest}

\* The dates of the activity timeline: creation, comments, reviews.
activityDates(created, commentList, reviewList) ==
    {created} \cup {commentList[k].created_at : k \in 1 .. Len(commentList)}
              \cup {reviewList[k].submitted_at : k \in 1 .. Len(reviewList)}

\* A plausible slip: the creation date left out of the timeline.
lastActivityOfOthers(created, commentList, reviewList) ==
    LET dates == activityDates(created, commentList, reviewList) \ {created}
    IN  IF dates = {} THEN 0 ELSE CHOOSE d \in dates : \A e \in dates : e <= d

\* [...].sort((a, b) => b.date - a.date)[0].date: the most recent date.
lastActivity(created, commentList, reviewList) ==
    CHOOSE d \in activityDates(created, commentList, reviewList) :
        \A e \in activityDates(created, commentList, reviewList) : e <= d

calculateMetrics(created, current, commentList, reviewList) ==
    [age |-> getBusinessDays(created, current),
     staleness |-> getBusinessDays(lastActivity(created, commentList, reviewList),
                                   current),
     isApproved |-> \E review \in activeReviews(reviewList) :
                        review.state = "APPROVED",
     hasChangesRequested |-> \E review \in activeReviews(reviewList) :
                                 review.state = "CHANGES_REQUESTED"]

(***************************************************************************)
(* Specification of calculateMetrics: one call on fetched comments and     *)
(* reviews.                                                                *)
(***************************************************************************)
\* Logins of reviewers: two ordinary ones and one that is also the name of
\* an inherited property.
Logins == {"alice", "bob", "constructor"}

Review(login, state, at) == [user |-> login, state |-> state, submitted_at |-> at]
Comment(login, at) == [user |-> login, created_at |-> at]

SampleReviews ==
    {Review(u, st, at) : u \in Logins, st \in ReviewStates, at \in 0 .. MaxTime}

MetricsInit ==
    /\ created_at = 0
    /\ now = MaxDay * TicksPerDay
    /\ comments \in {<<>>, <<Comment("alice", MaxTime)>>}
    /\ reviews \in SeqsUpTo(SampleReviews, MaxReviews)
    /\ metrics = NoMetrics
    /\ CODEOWNER_RULES = <<>>
    /\ DaysIdle
    /\ OwnersIdle
    /\ ClassifyIdle
    /\ FetchIdle
    /\ BatchIdle
    /\ OrgIdle
    /\ PrintIdle
    /\ PatternIdle
    /\ ParseIdle
    /\ AttentionIdle
    /\ RunIdle

CallCalculateMetrics ==
    /\ metrics = NoMetrics
    /\ metrics' = calculateMetrics(created_at, now, comments, reviews)
    /\ UNCHANGED <<created_at, now, comments, reviews, CODEOWNER_RULES,
                   daysVars, ownersVars, classifyVars,
                   fetchVars, batchVars, orgVars, printVars,
                   patternVars, parseVars, attentionVars, runVars>>

MetricsNext == CallCalculateMetrics

SpecMetrics == MetricsInit /\ [][MetricsNext]_vars

(***************************************************************************)
(* TriageClassifier of the organisation-wide report: getPRStatus           *)
(* (index.ts).  A pull request is the record the report has built by then: *)
(* the fetched fields, the metrics spread into it and the changed files.   *)
(***************************************************************************)
\* The first label carries an emoji in the source.
PRIORITY_LABELS == <<":rotating_light: urgent", "Urgent", "High priority">>

PR_STATUS ==
    [HIGH_PRIORITY           |-> [priority |-> 0, label |-> "High Priority"],
     NEEDS_FOUNDATION_REVIEW |-> [priority |-> 1, label |-> "Needs Foundation Review"],
     NEEDS_PLATFORM_REVIEW   |-> [priority |-> 2, label |-> "Needs Platform Review"],
     NEEDS_CONSUMER_REVIEW   |-> [priority |-> 3, label |-> "Needs Consumer Review"],
     NEEDS_REVIEW            |-> [priority |-> 4, label |-> "Needs Review"],
     CHANGES_REQUESTED       |-> [priority |-> 5, label |-> "Changes requested"],
     APPROVED                |-> [priority |-> 6, label |-> "Approved"],
     COMMUNITY_PRS           |-> [priority |-> 7, label |-> "Community PRs"]]

TEAMS == [foundation |-> Foundation, platform |-> Platform, consumer |-> Consumer]

\* codeOwnerTeams.map((t) => t.toLowerCase())
mapToLowerCase(teams) == [k \in 1 .. Len(teams) |-> toLowerCase(teams[k])]

\* Array.prototype.includes on a list.
listIncludes(list, x) == \E k \in 1 .. Len(list) : list[k] = x

Returned(st) == [ok |-> TRUE, status |-> st, error |-> ""]
Thrown(message) == [ok |-> FALSE, status |-> NoStatus, error |-> message]

\* pr.labels.some((label) => PRIORITY_LABELS.includes(label.name))
hasPriorityLabel(p) ==
    \E k \in 1 .. Len(p.labels) : listIncludes(PRIORITY_LABELS, p.labels[k].name)

\* The rules after the code-owner lookup: community, the review state, then
\* the single-owner teams.
statusAfterLookup(p, codeOwnerTeamsLower) ==
    LET onlyOneCodeOwner == Len(codeOwnerTeamsLower) = 1
        has(team) == listIncludes(codeOwnerTeamsLower, toLowerCase(team))
    IN  IF p.isCommunityPR THEN PR_STATUS.COMMUNITY_PRS
        ELSE IF p.hasChangesRequested THEN PR_STATUS.CHANGES_REQUESTED
        ELSE IF p.isApproved THEN PR_STATUS.APPROVED
        ELSE IF has(TEAMS.foundation) /\ onlyOneCodeOwner
             THEN PR_STATUS.NEEDS_FOUNDATION_REVIEW
        ELSE IF has(TEAMS.platform) /\ onlyOneCodeOwner
             THEN PR_STATUS.NEEDS_PLATFORM_REVIEW
        ELSE IF has(TEAMS.consumer) /\ onlyOneCodeOwner
             THEN PR_STATUS.NEEDS_CONSUMER_REVIEW
        ELSE PR_STATUS.NEEDS_REVIEW

\* From the lookup on: its error passed on, or the status by the rules above.
statusFromLookup(p, owners) ==
    IF ~owners.ok THEN Thrown(owners.error)
    ELSE Returned(statusAfterLookup(p, mapToLowerCase(owners.teams)))

\* A plausible slip: the community rule ahead of the priority labels.
getPRStatusCommunityFirst(p) ==
    IF p.isCommunityPR THEN Returned(PR_STATUS.COMMUNITY_PRS)
    ELSE IF hasPriorityLabel(p) THEN Returned(PR_STATUS.HIGH_PRIORITY)
    ELSE statusFromLookup(p, getCodeOwnerTeams(p.files, CODEOWNER_RULES))

\* The single-owner teams ahead of the review state.
statusOwnerFirst(p, owners) ==
    LET lower == mapToLowerCase(owners.teams)
        byOwner == statusAfterLookup([p EXCEPT !.hasChangesRequested = FALSE,
                                               !.isApproved = FALSE], lower)
    IN  IF ~owners.ok THEN Thrown(owners.error)
        ELSE IF byOwner # PR_STATUS.NEEDS_REVIEW THEN Returned(byOwner)
        ELSE Returned(statusAfterLookup(p, lower))

\* A plausible slip: the fast-track rule ahead of the review state.
getPRStatusOwnerFirst(p) ==
    IF hasPriorityLabel(p) THEN Returned(PR_STATUS.HIGH_PRIORITY)
    ELSE statusOwnerFirst(p, getCodeOwnerTeams(p.files, CODEOWNER_RULES))

getPRStatus(p) ==
    IF hasPriorityLabel(p) THEN Returned(PR_STATUS.HIGH_PRIORITY)
    ELSE statusFromLookup(p, getCodeOwnerTeams(p.files, CODEOWNER_RULES))

(***************************************************************************)
(* TriageClassifier of the team report: getPRStatus (team.ts).             *)
(***************************************************************************)
PR_STATUS_TEAM ==
    [NEEDS_REVIEW      |-> [priority |-> 0, label |-> "Needs review"],
     CHANGES_REQUESTED |-> [priority |-> 1, label |-> "Changes requested"],
     APPROVED          |-> [priority |-> 2, label |-> "Approved"],
     NEEDS_REVIEW_FROM_OTHER_TEAMS
                       |-> [priority |-> 3, label |-> "Needs review from other teams"],
     COMMUNITY_PR      |-> [priority |-> 4, label |-> "Community PRs"]]

getPRStatusTeam(p) ==
    IF p.isCommunityPR THEN Returned(PR_STATUS_TEAM.COMMUNITY_PR)
    ELSE IF p.hasChangesRequested THEN Returned(PR_STATUS_TEAM.CHANGES_REQUESTED)
    ELSE IF p.isApproved THEN Returned(PR_STATUS_TEAM.APPROVED)
    ELSE IF p.isOrgMemberWithTeamReview
         THEN Returned(PR_STATUS_TEAM.NEEDS_REVIEW_FROM_OTHER_TEAMS)
    ELSE Returned(PR_STATUS_TEAM.NEEDS_REVIEW)

(***************************************************************************)
(* TriageClassifier of the earlier organisation-wide report: getPRStatus   *)
(* (whole.mjs), which takes the owning teams from the teams asked to       *)
(* review the pull request.                                                *)
(***************************************************************************)
\* The first label carries an emoji in the source.
PRIORITY_LABELS_REQUESTED ==
    <<":rotating_light: urgent", "Urgent", "High priority", "high-risk">>

PR_STATUS_REQUESTED ==
    [HIGH_PRIORITY           |-> [priority |-> 0, label |-> "High Priority"],
     NEEDS_FOUNDATION_REVIEW |-> [priority |-> 1, label |-> "Needs Foundation Review"],
     NEEDS_PLATFORM_REVIEW   |-> [priority |-> 2, label |-> "Needs Platform Review"],
     NEEDS_CONSUMER_REVIEW   |-> [priority |-> 3, label |-> "Needs Consumer Review"],
     NEEDS_REVIEW            |-> [priority |-> 4, label |-> "Needs Review"],
     CHANGES_REQUESTED       |-> [priority |-> 5, label |-> "Changes requested"],
     APPROVED                |-> [priority |-> 6, label |-> "Approved"]]

TEAMS_REQUESTED ==
    [foundation |-> foundation, platform |-> platform, consumer |-> consumer]

\* An optional field: left out of the object, or holding a value.
Undefined == [defined |-> FALSE, value |-> <<>>]
Defined(value) == [defined |-> TRUE, value |-> value]

\* pr.requested_teams?.map((team) => team.slug) || []
requestedTeamSlugs(p) ==
    IF p.requested_teams.defined
    THEN [k \in 1 .. Len(p.requested_teams.value) |-> p.requested_teams.value[k].slug]
    ELSE <<>>

\* Object.values(TEAMS)
teamValues == <<TEAMS_REQUESTED.foundation, TEAMS_REQUESTED.platform,
                TEAMS_REQUESTED.consumer>>

\* The closure isOnlyTeamRequested: the team is asked and no other of TEAMS is.
isOnlyTeamRequested(requestedTeams, team) ==
    LET otherTeams == SelectSeq(teamValues, LAMBDA t : t # team)
    IN  /\ listIncludes(requestedTeams, team)
        /\ ~\E k \in 1 .. Len(otherTeams) : listIncludes(requestedTeams, otherTeams[k])

getPRStatusRequested(p) ==
    LET requestedTeams == requestedTeamSlugs(p)
    IN  IF \E k \in 1 .. Len(p.labels) :
               listIncludes(PRIORITY_LABELS_REQUESTED, p.labels[k].name)
        THEN Returned(PR_STATUS_REQUESTED.HIGH_PRIORITY)
        ELSE IF isOnlyTeamRequested(requestedTeams, TEAMS_REQUESTED.foundation)
        THEN Returned(PR_STATUS_REQUESTED.NEEDS_FOUNDATION_REVIEW)
        ELSE IF isOnlyTeamRequested(requestedTeams, TEAMS_REQUESTED.platform)
        THEN Returned(PR_STATUS_REQUESTED.NEEDS_PLATFORM_REVIEW)
        ELSE IF isOnlyTeamRequested(requestedTeams, TEAMS_REQUESTED.consumer)
        THEN Returned(PR_STATUS_REQUESTED.NEEDS_CONSUMER_REVIEW)
        ELSE IF p.hasChangesRequested
        THEN Returned(PR_STATUS_REQUESTED.CHANGES_REQUESTED)
        ELSE IF p.isApproved THEN Returned(PR_STATUS_REQUESTED.APPROVED)
        ELSE Returned(PR_STATUS_REQUESTED.NEEDS_REVIEW)

(***************************************************************************)
(* Specification of the classifiers: each is called once on a pull request *)
(* with its metrics and files, under a loaded rule list.                   *)
(***************************************************************************)
Label(name) == [name |-> name]

SampleLabelLists ==
    { <<>>, <<Label("bug")>>, <<Label("Urgent")>>, <<Label("urgent")>>,
      <<Label("high-risk")>>, <<Label("bug"), Label("High priority")>> }

Team(slug) == [slug |-> slug]

\* No team asked, one fast-track team, one beside a team that is none, two.
SampleRequestedTeams ==
    { Undefined, Defined(<<Team(consumer)>>), Defined(<<Team(docs), Team(foundation)>>),
      Defined(<<Team(foundation), Team(platform)>>) }

Rule(pattern, teams) == [pattern |-> pattern, teams |-> teams]

\* Rule lists giving no owner, one owner, owners differing in case, several
\* owners, and one with a pattern that does not compile.
SampleRuleLists ==
    { <<>>,
      <<Rule(<<"r">>, <<foundation>>), Rule(<<"/", "d", "/">>, <<platform>>)>>,
      <<Rule(<<"r">>, <<Foundation>>), Rule(<<"/", "d", "/">>, <<foundation>>)>>,
      <<Rule(<<"r">>, <<Consumer>>), Rule(<<"/", "d", "/">>, <<docs>>)>>,
      <<Rule(<<"*">>, <<Platform, foundation>>)>>,
      <<Rule(<<"r">>, <<FOUNDATION>>)>>,
      <<Rule(<<"r">>, <<foundation>>), Rule(<<"*", "*", "*">>, <<platform>>)>> }

SamplePRFiles ==
    { <<>>, <<File(<<"r">>)>>, <<File(<<"d", "/", "x">>)>>,
      <<File(<<"r">>), File(<<"d", "/", "x">>)>> }

SamplePRs ==
    [number : {1},
     labels : SampleLabelLists,
     draft : BOOLEAN,
     isCommunityPR : BOOLEAN,
     isOrgMemberWithTeamReview : BOOLEAN,
     requested_teams : SampleRequestedTeams,
     files : SamplePRFiles,
     age : {0, 9},
     staleness : {0},
     isApproved : BOOLEAN,
     hasChangesRequested : BOOLEAN]

ClassifyInit ==
    /\ CODEOWNER_RULES \in SampleRuleLists
    /\ pr \in SamplePRs
    /\ status = NotClassified
    /\ teamStatus = NotClassified
    /\ statusAgain = NotClassified
    /\ requestedStatus = NotClassified
    /\ heap = <<>>
    /\ heapBefore = <<>>
    /\ DaysIdle
    /\ OwnersIdle
    /\ MetricsIdle
    /\ FetchIdle
    /\ BatchIdle
    /\ OrgIdle
    /\ PrintIdle
    /\ PatternIdle
    /\ ParseIdle
    /\ AttentionIdle
    /\ RunIdle

CallGetPRStatus ==
    /\ status = NotClassified
    /\ status' = getPRStatus(pr)
    /\ UNCHANGED <<pr, teamStatus, statusAgain, requestedStatus, heap, heapBefore,
                   CODEOWNER_RULES, daysVars, ownersVars, metricsVars,
                   fetchVars, batchVars, orgVars, printVars,
                   patternVars, parseVars, attentionVars, runVars>>

CallGetPRStatusTeam ==
    /\ teamStatus = NotClassified
    /\ teamStatus' = getPRStatusTeam(pr)
    /\ UNCHANGED <<pr, status, statusAgain, requestedStatus, heap, heapBefore,
                   CODEOWNER_RULES, daysVars, ownersVars,
                   metricsVars,
                   fetchVars, batchVars, orgVars, printVars,
                   patternVars, parseVars, attentionVars, runVars>>

\* getPRStatus(pr) of the earlier report.
CallGetPRStatusRequested ==
    /\ requestedStatus = NotClassified
    /\ requestedStatus' = getPRStatusRequested(pr)
    /\ UNCHANGED <<pr, status, teamStatus, statusAgain, heap, heapBefore,
                   CODEOWNER_RULES, daysVars, ownersVars, metricsVars, fetchVars,
                   batchVars, orgVars, printVars, patternVars, parseVars,
                   attentionVars, runVars>>

ClassifyNext == CallGetPRStatus \/ CallGetPRStatusTeam \/ CallGetPRStatusRequested

SpecClassify == ClassifyInit /\ [][ClassifyNext]_vars

(***************************************************************************)
(* getPRStatus (index.ts) and getCodeOwnerTeams (common.ts) statement by   *)
(* statement over the objects of the run.  An object lives at an address   *)
(* of the heap, its index; a field or an item that is an object holds the  *)
(* address; strings, numbers and booleans are values.  A statement that    *)
(* writes through a reference changes the object at that address, whoever  *)
(* else holds the reference.                                               *)
(***************************************************************************)
Object(fields) == [kind |-> "Object", value |-> fields]
Array(items) == [kind |-> "Array", value |-> items]
SetObject(items) == [kind |-> "Set", value |-> items]

\* undefined where an address is expected.
NoAddress == 0
\* The argument pr of getPRStatus.
prAddress == 1
\* The binding CODEOWNER_RULES that getPRStatus passes on.
rulesAddress == 2

\* The heap a caller has built: the pull request with its label and file
\* lists (files left out when filesDefined is false), and the rule list with
\* every rule's team list.
heapOf(p, filesDefined, rules) ==
    LET nl == Len(p.labels)
        nf == IF filesDefined THEN Len(p.files) ELSE 0
        nr == Len(rules)
        labelsAt == 3
        filesAt == IF filesDefined THEN 4 ELSE NoAddress
        base == IF filesDefined THEN 4 ELSE 3
        prObject == Object([p EXCEPT !.labels = labelsAt, !.files = filesAt,
                                     !.requested_teams = NoAddress])
        rulesArray == Array([k \in 1 .. nr |-> base + nl + nf + k])
        labelsArray == Array([k \in 1 .. nl |-> base + k])
        filesArray == Array([k \in 1 .. nf |-> base + nl + k])
        labelObjects == [k \in 1 .. nl |-> Object(p.labels[k])]
        fileObjects == [k \in 1 .. nf |-> Object(p.files[k])]
        ruleObjects == [k \in 1 .. nr |->
                           Object([pattern |-> rules[k].pattern,
                                   teams |-> base + nl + nf + nr + k])]
        teamArrays == [k \in 1 .. nr |-> Array(rules[k].teams)]
    IN  <<prObject, rulesArray, labelsArray>>
            \o (IF filesDefined THEN <<filesArray>> ELSE <<>>)
            \o labelObjects \o fileObjects \o ruleObjects \o teamArrays

\* A new object: the heap with it, and its address.
allocate(h, object) == [heap |-> Append(h, object), address |-> Len(h) + 1]

\* A plausible slip: the teams are gathered into the first rule's own list
\* (a reduce over the rules' lists without an initial value).
firstRuleTeams(h) ==
    IF h[rulesAddress].value = <<>> THEN allocate(h, SetObject(<<>>))
    ELSE [heap |-> h, address |-> h[h[rulesAddress].value[1]].value.teams]

\* new Set<string>()
newSet(h) == allocate(h, SetObject(<<>>))

\* requiredTeams.add(team): insertion order, no duplicate.
setAdd(h, requiredTeams, team) ==
    IF listIncludes(h[requiredTeams].value, team) THEN h
    ELSE [h EXCEPT ![requiredTeams].value = Append(@, team)]

\* rule.teams.forEach((team) => requiredTeams.add(team)), from item k on.
RECURSIVE forEachAdd(_, _, _, _)
forEachAdd(h, teams, requiredTeams, k) ==
    IF k > Len(h[teams].value) THEN h
    ELSE forEachAdd(setAdd(h, requiredTeams, h[teams].value[k]), teams,
                    requiredTeams, k + 1)

\* for (const rule of codeownerRules) for one file, from rule r on.
RECURSIVE rulesLoopOn(_, _, _, _, _)
rulesLoopOn(h, file, codeownerRules, r, requiredTeams) ==
    IF r > Len(h[codeownerRules].value) THEN [ok |-> TRUE, heap |-> h, error |-> ""]
    ELSE LET rule == h[h[codeownerRules].value[r]].value
             compiled == parsePattern(rule.pattern)
         IN  IF ~compiled.ok THEN [ok |-> FALSE, heap |-> h, error |-> compiled.error]
             ELSE rulesLoopOn(IF test(compiled.re, h[file].value.filename)
                              THEN forEachAdd(h, rule.teams, requiredTeams, 1)
                              ELSE h,
                              file, codeownerRules, r + 1, requiredTeams)

\* for (const file of files), from file f on.
RECURSIVE filesLoopOn(_, _, _, _, _)
filesLoopOn(h, files, codeownerRules, f, requiredTeams) ==
    IF f > Len(h[files].value) THEN [ok |-> TRUE, heap |-> h, error |-> ""]
    ELSE LET inner == rulesLoopOn(h, h[files].value[f], codeownerRules, 1,
                                  requiredTeams)
         IN  IF ~inner.ok THEN inner
             ELSE filesLoopOn(inner.heap, files, codeownerRules, f + 1, requiredTeams)

\* return Array.from(requiredTeams), unless parsePattern threw in the loops.
arrayFrom(looped, requiredTeams) ==
    IF ~looped.ok
    THEN [ok |-> FALSE, heap |-> looped.heap, address |-> NoAddress,
          error |-> looped.error]
    ELSE [ok |-> TRUE, heap |-> Append(looped.heap, Array(looped.heap[requiredTeams].value)),
          address |-> Len(looped.heap) + 1, error |-> ""]

\* The loops of getCodeOwnerTeams and its return, requiredTeams being created.
gatherTeams(created, files, codeownerRules) ==
    arrayFrom(filesLoopOn(created.heap, files, codeownerRules, 1, created.address),
              created.address)

\* getCodeOwnerTeams(files, codeownerRules) on references: the heap it leaves
\* and the address of the array it returns, or what parsePattern threw.
getCodeOwnerTeamsCall(h, files, codeownerRules) ==
    gatherTeams(newSet(h), files, codeownerRules)

\* getPRStatus from onlyOneCodeOwner on, codeOwnerTeamsLower being made.
statusFromLower(p, lower) ==
    [heap |-> lower.heap,
     result |-> Returned(statusAfterLookup(p, lower.heap[lower.address].value))]

\* const codeOwnerTeamsLower = codeOwnerTeams.map((t) => t.toLowerCase()) and
\* the rest, or the error of the lookup passed on.
statusFromOwners(p, owners) ==
    IF ~owners.ok THEN [heap |-> owners.heap, result |-> Thrown(owners.error)]
    ELSE statusFromLower(p, allocate(owners.heap,
                                     Array(mapToLowerCase(owners.heap[owners.address].value))))

\* const codeOwnerTeams = getCodeOwnerTeams(files, CODEOWNER_RULES) and the rest.
statusFromFiles(p, files) ==
    statusFromOwners(p, getCodeOwnerTeamsCall(files.heap, files.address, rulesAddress))

\* getPRStatus(pr, orgMembers) on references: the heap it leaves and what it
\* returned or threw.  The body never reads orgMembers.
getPRStatusCall(h, prRef, orgMembers) ==
    LET p == h[prRef].value
        labels == h[p.labels].value
    IN  IF \E k \in 1 .. Len(labels) :
               listIncludes(PRIORITY_LABELS, h[labels[k]].value.name)
        THEN [heap |-> h, result |-> Returned(PR_STATUS.HIGH_PRIORITY)]
        \* const files = pr.files || []
        ELSE statusFromFiles(p, IF p.files # NoAddress
                                THEN [heap |-> h, address |-> p.files]
                                ELSE allocate(h, Array(<<>>)))

(***************************************************************************)
(* Specification of classifying twice: getPRStatus is called on a pull     *)
(* request and then again on the same pull request, in one run, under the  *)
(* rule list as loaded.                                                    *)
(***************************************************************************)
\* The member lists the caller may pass as the classifier's second argument.
SampleOrgMembers == {<<>>, <<"alice">>, <<"alice", "bob">>}

ReclassifiedPRs ==
    {p \in SamplePRs : /\ p.requested_teams = Undefined
                       /\ ~p.draft
                       /\ ~p.isOrgMemberWithTeamReview
                       /\ p.age = 0}

ReclassifyInit ==
    /\ \E p \in ReclassifiedPRs, rules \in SampleRuleLists, filesDefined \in BOOLEAN :
           /\ ~filesDefined => p.files = <<>>
           /\ heap = heapOf(p, filesDefined, rules)
    /\ heapBefore = heap
    /\ pr = NoPR
    /\ CODEOWNER_RULES = <<>>
    /\ status = NotClassified
    /\ teamStatus = NotClassified
    /\ statusAgain = NotClassified
    /\ requestedStatus = NotClassified
    /\ DaysIdle
    /\ OwnersIdle
    /\ MetricsIdle
    /\ FetchIdle
    /\ BatchIdle
    /\ OrgIdle
    /\ PrintIdle
    /\ PatternIdle
    /\ ParseIdle
    /\ AttentionIdle
    /\ RunIdle

reclassifyOthers == <<pr, teamStatus, requestedStatus, heapBefore, CODEOWNER_RULES,
                      daysVars, ownersVars, metricsVars, fetchVars, batchVars,
                      orgVars, printVars, patternVars, parseVars, attentionVars,
                      runVars>>

\* The first call.
ClassifyOnce ==
    /\ status = NotClassified
    /\ \E orgMembers \in SampleOrgMembers :
           \E call \in {getPRStatusCall(heap, prAddress, orgMembers)} :
               /\ heap' = call.heap
               /\ status' = call.result
    /\ UNCHANGED <<statusAgain, reclassifyOthers>>

\* The second call, on the heap the first one left.
ClassifyAgain ==
    /\ status # NotClassified
    /\ statusAgain = NotClassified
    /\ \E orgMembers \in SampleOrgMembers :
           \E call \in {getPRStatusCall(heap, prAddress, orgMembers)} :
               /\ heap' = call.heap
               /\ statusAgain' = call.result
    /\ UNCHANGED <<status, reclassifyOthers>>

ReclassifyNext == ClassifyOnce \/ ClassifyAgain

SpecReclassify == ReclassifyInit /\ [][ReclassifyNext]_vars

(***************************************************************************)
(* The GitHub requests of one pull request (common.ts: fetchPRComments,    *)
(* fetchPRReviews, fetchPRFiles).  What the server holds for a pull        *)
(* request is fixed by its number; failedFetch names the one request that  *)
(* is answered with an error status.                                       *)
(***************************************************************************)
Pending == [status |-> "pending"]
Fulfilled(value) == [status |-> "fulfilled", value |-> value]
Rejected(reason) == [status |-> "rejected", reason |-> reason]

Failure(number, endpoint) == [number |-> number, endpoint |-> endpoint]

createdAtOf(number) == ((number - 1) % MaxDay) * TicksPerDay

remoteComments(number) ==
    IF number % 2 = 0 THEN <<Comment("alice", createdAtOf(number) + 1)>> ELSE <<>>

remoteReviews(number) ==
    CASE number % 3 = 0 -> <<Review("alice", "APPROVED", createdAtOf(number))>>
      [] number % 3 = 1 -> <<Review("bob", "CHANGES_REQUESTED", createdAtOf(number))>>
      [] OTHER -> <<>>

remoteFiles(number) ==
    IF number % 2 = 1 THEN <<File(<<"r">>)>>
    ELSE <<File(<<"r">>), File(<<"d", "/", "x">>)>>

fetchPRComments(prNumber) ==
    IF failedFetch = Failure(prNumber, "comments")
    THEN Rejected("Error fetching PR comments")
    ELSE Fulfilled(remoteComments(prNumber))

fetchPRReviews(prNumber) ==
    IF failedFetch = Failure(prNumber, "reviews")
    THEN Rejected("Error fetching PR reviews")
    ELSE Fulfilled(remoteReviews(prNumber))

fetchPRFiles(prNumber) ==
    IF failedFetch = Failure(prNumber, "files")
    THEN Rejected("Error fetching PR files")
    ELSE Fulfilled(remoteFiles(prNumber))

\* calculateMetrics(pr) with its two requests: Promise.all of the comments
\* and the reviews, then the computation.
calculateMetricsOf(p) ==
    LET fetchedComments == fetchPRComments(p.number)
        fetchedReviews == fetchPRReviews(p.number)
    IN  IF fetchedComments.status = "rejected" THEN fetchedComments
        ELSE IF fetchedReviews.status = "rejected" THEN fetchedReviews
        ELSE Fulfilled(calculateMetrics(p.created_at, now, fetchedComments.value,
                                        fetchedReviews.value))

\* { ...a, ...b }: the fields of b over those of a.
spread(a, b) == b @@ a

(***************************************************************************)
(* groupAndSortPRs (common.ts) and the report lines.                       *)
(***************************************************************************)
\* A plausible slip: the sort of the groups left out.
sortLeftOut(list, field) == list

\* Array.prototype.sort with (a, b) => b[field] - a[field]: stable, descending.
RECURSIVE sortDescBy(_, _)
sortDescBy(list, field) ==
    IF list = <<>> THEN <<>>
    ELSE LET sorted == sortDescBy(SubSeq(list, 1, Len(list) - 1), field)
             x == list[Len(list)]
             before == Cardinality({k \in 1 .. Len(sorted) : sorted[k][field] >= x[field]})
         IN  SubSeq(sorted, 1, before) \o <<x>> \o SubSeq(sorted, before + 1, Len(sorted))

\* The pull requests, in input order, whose status has the given label.
RECURSIVE pushedTo(_, _, _, _)
pushedTo(label, prs, statuses, k) ==
    IF k > Len(prs) THEN <<>>
    ELSE (IF statuses[k].status.label = label THEN <<prs[k]>> ELSE <<>>)
             \o pushedTo(label, prs, statuses, k + 1)

\* The groups of the pull requests by the status got for each, or the error
\* of the first call of getStatus that threw.
groupByStatus(prs, statusSeq, statuses) ==
    LET thrown == {k \in 1 .. Len(prs) : ~statuses[k].ok}
        first == CHOOSE k \in thrown : \A other \in thrown : k <= other
    IN  IF thrown # {}
        THEN [ok |-> FALSE, error |-> statuses[first].error, groups |-> <<>>]
        ELSE [ok |-> TRUE, error |-> "",
              groups |-> [g \in 1 .. Len(statusSeq) |->
                            [label |-> statusSeq[g].label,
                             prs |-> sortDescBy(pushedTo(statusSeq[g].label, prs,
                                                         statuses, 1),
                                                "staleness")]]]

\* statusSeq is Object.values(statusMap) in declaration order; getStatus is
\* the classifier as a function on the pull requests of the list.
groupAndSortPRs(prs, statusSeq, getStatus) ==
    groupByStatus(prs, statusSeq, [k \in 1 .. Len(prs) |-> getStatus[prs[k]]])

\* formatPRLine: what the line shows of the pull request.
formatPRLine(p) == [number |-> p.number, age |-> p.age, staleness |-> p.staleness]

formatLines(prs) == [k \in 1 .. Len(prs) |-> formatPRLine(prs[k])]

ErrorOutput(message) == [ok |-> FALSE, error |-> message, message |-> "", groups |-> <<>>]
MessageOutput(message) == [ok |-> TRUE, error |-> "", message |-> message, groups |-> <<>>]
ReportOutput(groups) == [ok |-> TRUE, error |-> "", message |-> "", groups |-> groups]

(***************************************************************************)
(* The team report: printPullRequests (team.ts), the metrics of the pull   *)
(* requests fetched in batches of METRICS_CONCURRENCY_LIMIT.               *)
(***************************************************************************)
METRICS_CONCURRENCY_LIMIT == 15

MaxPRs == 16

ZeroMetrics == [age |-> 0, staleness |-> 0, isApproved |-> FALSE, hasChangesRequested |-> FALSE]

PR_STATUS_TEAM_VALUES ==
    <<PR_STATUS_TEAM.NEEDS_REVIEW, PR_STATUS_TEAM.CHANGES_REQUESTED, PR_STATUS_TEAM.APPROVED,
      PR_STATUS_TEAM.NEEDS_REVIEW_FROM_OTHER_TEAMS, PR_STATUS_TEAM.COMMUNITY_PR>>

\* A plausible slip: the end of the window left out, slice(i).
sliceToEnd(list, from, to) == SubSeq(list, from + 1, Len(list))

\* pullRequests.slice(i, i + concurrencyLimit)
slice(list, from, to) ==
    SubSeq(list, from + 1, IF to < Len(list) THEN to ELSE Len(list))

\* A plausible slip: the failure passed on instead of replaced.
metricsCallbackRethrow(p) ==
    LET computed == calculateMetricsOf(p)
    IN  IF computed.status = "fulfilled" THEN Fulfilled(spread(p, computed.value))
        ELSE computed

\* The async callback of batch.map: try calculateMetrics, catch with zeros.
metricsCallback(p) ==
    LET computed == calculateMetricsOf(p)
    IN  IF computed.status = "fulfilled" THEN Fulfilled(spread(p, computed.value))
        ELSE Fulfilled(spread(p, ZeroMetrics))

\* The fulfilled values of the settled batch, in batch order.
RECURSIVE fulfilledValues(_, _)
fulfilledValues(results, k) ==
    IF k > Len(results) THEN <<>>
    ELSE (IF results[k].status = "fulfilled" THEN <<results[k].value>> ELSE <<>>)
             \o fulfilledValues(results, k + 1)

\* The groups as printed: empty groups skipped, the community group cut to
\* its five oldest.
printedGroup(group) ==
    IF group.label = PR_STATUS_TEAM.COMMUNITY_PR.label
    THEN [label |-> group.label, total |-> Len(group.prs),
          lines |-> formatLines(slice(sortDescBy(group.prs, "age"), 0, 5))]
    ELSE [label |-> group.label, total |-> Len(group.prs), lines |-> formatLines(group.prs)]

printGroups(groups) ==
    LET shown == SelectSeq(groups, LAMBDA group : group.prs # <<>>)
    IN  [g \in 1 .. Len(shown) |-> printedGroup(shown[g])]

TeamPR(number) ==
    [number |-> number, created_at |-> createdAtOf(number),
     isCommunityPR |-> number % 2 = 0, isOrgMemberWithTeamReview |-> number % 5 = 0]

\* No failure, one in the first batch, one in the last.
SampleFailures ==
    {NoFailure, Failure(2, "comments"), Failure(2, "reviews"), Failure(MaxPRs, "reviews")}

\* No pull request, less than a batch, more than a batch.
SampleLengths == {0, 2, MaxPRs}

BatchInit ==
    /\ pullRequests \in {[k \in 1 .. n |-> TeamPR(k)] : n \in SampleLengths}
    /\ failedFetch \in SampleFailures
    /\ batchStart = 0
    /\ batchResults = <<>>
    /\ prsWithMetrics = <<>>
    /\ batchPc = "entry"
    /\ output = NoOutput
    /\ now = MaxDay * TicksPerDay
    /\ created_at = 0
    /\ comments = <<>>
    /\ reviews = <<>>
    /\ metrics = NoMetrics
    /\ CODEOWNER_RULES = <<>>
    /\ DaysIdle
    /\ OwnersIdle
    /\ ClassifyIdle
    /\ OrgIdle
    /\ PatternIdle
    /\ ParseIdle
    /\ AttentionIdle
    /\ RunIdle

batchOthers == <<CODEOWNER_RULES, failedFetch, pullRequests, daysVars, ownersVars,
                 metricsVars, classifyVars, orgVars, patternVars, parseVars,
                 attentionVars, runVars>>

\* The early return on an empty list, otherwise on to the loop.
EnterPrintPullRequests ==
    /\ batchPc = "entry"
    /\ IF Len(pullRequests) = 0
       THEN /\ output' = MessageOutput("No open pull requests found.")
            /\ batchPc' = "done"
       ELSE /\ batchPc' = "loop"
            /\ UNCHANGED output
    /\ UNCHANGED <<batchStart, batchResults, prsWithMetrics, batchOthers>>

\* One pass of the for loop up to the await: the callbacks of the batch start.
StartBatch ==
    /\ batchPc = "loop"
    /\ batchStart < Len(pullRequests)
    /\ batchResults' =
           [k \in 1 .. Len(slice(pullRequests, batchStart,
                                 batchStart + METRICS_CONCURRENCY_LIMIT)) |-> Pending]
    /\ batchPc' = "await"
    /\ UNCHANGED <<batchStart, prsWithMetrics, output, batchOthers>>

\* The callback of one pull request of the batch settles.
SettleMetrics(k) ==
    /\ batchPc = "await"
    /\ batchResults[k] = Pending
    /\ batchResults' = [batchResults EXCEPT ![k] = metricsCallback(pullRequests[batchStart + k])]
    /\ UNCHANGED <<batchStart, prsWithMetrics, batchPc, output, batchOthers>>

\* Promise.allSettled resolves: the fulfilled results are pushed in order and
\* the loop index advances.
CollectBatch ==
    /\ batchPc = "await"
    /\ \A k \in 1 .. Len(batchResults) : batchResults[k] # Pending
    /\ prsWithMetrics' = prsWithMetrics \o fulfilledValues(batchResults, 1)
    /\ batchStart' = batchStart + METRICS_CONCURRENCY_LIMIT
    /\ batchPc' = "loop"
    /\ UNCHANGED <<batchResults, output, batchOthers>>

\* The loop is over: the results are grouped and printed.
PrintGroups ==
    /\ batchPc = "loop"
    /\ batchStart >= Len(pullRequests)
    /\ output' = ReportOutput(printGroups(
                     groupAndSortPRs(prsWithMetrics, PR_STATUS_TEAM_VALUES,
                                     [p \in {prsWithMetrics[k] : k \in 1 .. Len(prsWithMetrics)}
                                         |-> getPRStatusTeam(p)]).groups))
    /\ batchPc' = "done"
    /\ UNCHANGED <<batchStart, batchResults, prsWithMetrics, batchOthers>>

BatchNext ==
    \/ EnterPrintPullRequests
    \/ StartBatch
    \/ \E k \in 1 .. Len(batchResults) : SettleMetrics(k)
    \/ CollectBatch
    \/ PrintGroups

SpecBatch == BatchInit /\ [][BatchNext]_vars

(***************************************************************************)
(* The organisation-wide report: main (index.ts) from the metrics of the   *)
(* filtered pull requests to the returned text, with printPullRequests.    *)
(***************************************************************************)
MaxOrgPRs == 3

PR_STATUS_VALUES ==
    <<PR_STATUS.HIGH_PRIORITY, PR_STATUS.NEEDS_FOUNDATION_REVIEW,
      PR_STATUS.NEEDS_PLATFORM_REVIEW, PR_STATUS.NEEDS_CONSUMER_REVIEW,
      PR_STATUS.NEEDS_REVIEW, PR_STATUS.CHANGES_REQUESTED, PR_STATUS.APPROVED,
      PR_STATUS.COMMUNITY_PRS>>

\* enhancePRWithMetrics: Promise.all of the metrics and the files, rejected
\* with the first failure, else the pull request with both spread into it.
enhancePRWithMetrics(p) ==
    LET computed == calculateMetricsOf(p)
        fetchedFiles == fetchPRFiles(p.number)
    IN  IF computed.status = "rejected" THEN computed
        ELSE IF fetchedFiles.status = "rejected" THEN fetchedFiles
        ELSE Fulfilled(spread(spread(p, computed.value), [files |-> fetchedFiles.value]))

\* hasFoundation || hasConsumer on the outcome of the lookup.
hasFoundationOrConsumer(owners) ==
    LET codeOwnerTeamsLower == mapToLowerCase(owners.teams)
    IN  [ok |-> owners.ok, error |-> owners.error,
         keep |-> \/ listIncludes(codeOwnerTeamsLower, toLowerCase(TEAMS.foundation))
                  \/ listIncludes(codeOwnerTeamsLower, toLowerCase(TEAMS.consumer))]

\* The filter of the community pull requests: owned by Foundation or Consumer.
needsFoundationOrConsumer(p) ==
    hasFoundationOrConsumer(getCodeOwnerTeams(p.files, CODEOWNER_RULES))

\* printPullRequests of index.ts: the groups with their lines, empty groups
\* skipped.
printGroupsOrg(groupedPRs) ==
    LET shown == SelectSeq(groupedPRs.groups, LAMBDA group : group.prs # <<>>)
    IN  IF ~groupedPRs.ok THEN ErrorOutput(groupedPRs.error)
        ELSE ReportOutput([g \in 1 .. Len(shown) |->
                             [label |-> shown[g].label, total |-> Len(shown[g].prs),
                              lines |-> formatLines(shown[g].prs)]])

printPullRequestsOrg(allPRs) ==
    IF Len(allPRs) = 0 THEN MessageOutput("No open pull requests.")
    ELSE printGroupsOrg(groupAndSortPRs(allPRs, PR_STATUS_VALUES,
                                        [p \in {allPRs[k] : k \in 1 .. Len(allPRs)}
                                            |-> getPRStatus(p)]))

\* .filter(...).map((pr) => ({ ...pr, isCommunityPR: true })) from index k on.
RECURSIVE markKept(_, _, _)
markKept(prs, checked, k) ==
    IF k > Len(prs) THEN <<>>
    ELSE (IF checked[k].keep THEN <<[prs[k] EXCEPT !.isCommunityPR = TRUE]>> ELSE <<>>)
             \o markKept(prs, checked, k + 1)

\* Combine and print, given the outcome of the filter on each community
\* pull request; the first lookup that threw ends main with its error.
combineAndPrint(orgPRsWithMetrics, communityPRsWithMetrics, checked) ==
    LET thrown == {k \in 1 .. Len(checked) : ~checked[k].ok}
        first == CHOOSE k \in thrown : \A other \in thrown : k <= other
    IN  IF thrown # {} THEN ErrorOutput(checked[first].error)
        ELSE printPullRequestsOrg(orgPRsWithMetrics
                                      \o markKept(communityPRsWithMetrics, checked, 1))

\* The rest of main once both joins are through: filter, mark, combine, print.
reportOf(orgPRsWithMetrics, communityPRsWithMetrics) ==
    combineAndPrint(orgPRsWithMetrics, communityPRsWithMetrics,
                    [k \in 1 .. Len(communityPRsWithMetrics) |->
                        needsFoundationOrConsumer(communityPRsWithMetrics[k])])

values(promises) == [k \in 1 .. Len(promises) |-> promises[k].value]

OrgPR(number) ==
    [number |-> number, created_at |-> createdAtOf(number), draft |-> FALSE,
     labels |-> IF number = 3 THEN <<Label("Urgent")>> ELSE <<>>,
     isCommunityPR |-> FALSE]

\* Rule lists whose patterns all compile.
LoadedRuleLists ==
    { <<>>,
      <<Rule(<<"r">>, <<foundation>>), Rule(<<"/", "d", "/">>, <<platform>>)>>,
      <<Rule(<<"r">>, <<Consumer>>), Rule(<<"/", "d", "/">>, <<docs>>)>> }

OrgFailures ==
    {NoFailure} \cup {Failure(number, endpoint) :
                         number \in {1, 2, MaxOrgPRs + 1},
                         endpoint \in {"comments", "reviews", "files"}}

OrgInit ==
    /\ CODEOWNER_RULES \in LoadedRuleLists
    /\ orgMemberAndDevinPRs \in {[k \in 1 .. n |-> OrgPR(k)] : n \in 0 .. MaxOrgPRs}
    /\ approvedCommunityPRs \in {<<>>, <<OrgPR(MaxOrgPRs + 1)>>}
    /\ failedFetch \in OrgFailures
    /\ orgPromises = <<>>
    /\ communityPromises = <<>>
    /\ orgPc = "metrics"
    /\ output = NoOutput
    /\ now = MaxDay * TicksPerDay
    /\ created_at = 0
    /\ comments = <<>>
    /\ reviews = <<>>
    /\ metrics = NoMetrics
    /\ DaysIdle
    /\ OwnersIdle
    /\ ClassifyIdle
    /\ BatchIdle
    /\ PatternIdle
    /\ ParseIdle
    /\ AttentionIdle
    /\ RunIdle

orgOthers == <<CODEOWNER_RULES, failedFetch, orgMemberAndDevinPRs, approvedCommunityPRs,
               daysVars, ownersVars, metricsVars, classifyVars, batchVars,
               patternVars, parseVars, attentionVars, runVars>>

\* main reaches the first Promise.all: every enhancePRWithMetrics starts.
StartOrgMetrics ==
    /\ orgPc = "metrics"
    /\ orgPromises' = [k \in 1 .. Len(orgMemberAndDevinPRs) |-> Pending]
    /\ orgPc' = "awaitOrg"
    /\ UNCHANGED <<communityPromises, output, orgOthers>>

\* One promise of the first join settles; the first rejection rejects the
\* join, main's catch returns the error text, the other fetches run on.
SettleOrgPR(k) ==
    /\ orgPromises[k] = Pending
    /\ LET settled == enhancePRWithMetrics(orgMemberAndDevinPRs[k])
       IN  /\ orgPromises' = [orgPromises EXCEPT ![k] = settled]
           /\ IF settled.status = "rejected" /\ orgPc = "awaitOrg"
              THEN /\ output' = ErrorOutput(settled.reason)
                   /\ orgPc' = "done"
              ELSE UNCHANGED <<output, orgPc>>
    /\ UNCHANGED <<communityPromises, orgOthers>>

\* The first join resolves; main reaches the second Promise.all.
StartCommunityMetrics ==
    /\ orgPc = "awaitOrg"
    /\ \A k \in 1 .. Len(orgPromises) : orgPromises[k].status = "fulfilled"
    /\ communityPromises' = [k \in 1 .. Len(approvedCommunityPRs) |-> Pending]
    /\ orgPc' = "awaitCommunity"
    /\ UNCHANGED <<orgPromises, output, orgOthers>>

SettleCommunityPR(k) ==
    /\ communityPromises[k] = Pending
    /\ LET settled == enhancePRWithMetrics(approvedCommunityPRs[k])
       IN  /\ communityPromises' = [communityPromises EXCEPT ![k] = settled]
           /\ IF settled.status = "rejected" /\ orgPc = "awaitCommunity"
              THEN /\ output' = ErrorOutput(settled.reason)
                   /\ orgPc' = "done"
              ELSE UNCHANGED <<output, orgPc>>
    /\ UNCHANGED <<orgPromises, orgOthers>>

\* The second join resolves; main filters, combines and prints.
PrintReport ==
    /\ orgPc = "awaitCommunity"
    /\ \A k \in 1 .. Len(communityPromises) : communityPromises[k].status = "fulfilled"
    /\ output' = reportOf(values(orgPromises), values(communityPromises))
    /\ orgPc' = "done"
    /\ UNCHANGED <<orgPromises, communityPromises, orgOthers>>

OrgNext ==
    \/ StartOrgMetrics
    \/ \E k \in 1 .. Len(orgPromises) : SettleOrgPR(k)
    \/ StartCommunityMetrics
    \/ \E k \in 1 .. Len(communityPromises) : SettleCommunityPR(k)
    \/ PrintReport

SpecOrg == OrgInit /\ [][OrgNext]_vars

(***************************************************************************)
(* Claims about calculateMetrics.                                          *)
(***************************************************************************)
\* A review of the list with no strictly later review from the same author,
\* and no earlier entry of the list from that author at the same instant.
IsLatestOfItsAuthor(k) ==
    \A j \in 1 .. Len(reviews) :
        (j # k /\ reviews[j].user = reviews[k].user) =>
            \/ reviews[j].submitted_at < reviews[k].submitted_at
            \/ (reviews[j].submitted_at = reviews[k].submitted_at /\ j > k)

SomeLatestHasState(state) ==
    \E k \in 1 .. Len(reviews) :
        IsLatestOfItsAuthor(k) /\ reviews[k].state = state

\* A review with a strictly later review from the same author.
IsSuperseded(k) ==
    \E j \in 1 .. Len(reviews) :
        /\ reviews[j].user = reviews[k].user
        /\ reviews[j].submitted_at > reviews[k].submitted_at

\* C6: the flags are those of the latest review of each author: isApproved
\* iff some author's latest review is APPROVED, hasChangesRequested iff some
\* author's latest review is CHANGES_REQUESTED.  So a review that the same
\* author has followed by a later one never counts, one author's later
\* review does not cancel another author's approval, and the two flags are
\* independent of each other.
C6_LatestReviewPerAuthor ==
    metrics # NoMetrics =>
        /\ metrics.isApproved = SomeLatestHasState("APPROVED")
        /\ metrics.hasChangesRequested = SomeLatestHasState("CHANGES_REQUESTED")
        /\ metrics.isApproved =>
               \E k \in 1 .. Len(reviews) :
                   reviews[k].state = "APPROVED" /\ ~IsSuperseded(k)
        /\ (\E k \in 1 .. Len(reviews) :
               /\ reviews[k].state = "APPROVED"
               /\ \A j \in 1 .. Len(reviews) :
                      j # k => reviews[j].user # reviews[k].user)
               => metrics.isApproved

\* One author approved and later requested changes: only the later review
\* counted.
C6_Witness ==
    /\ Len(reviews) = 2
    /\ reviews[1].user = reviews[2].user
    /\ reviews[1].state = "APPROVED"
    /\ reviews[2].state = "CHANGES_REQUESTED"
    /\ reviews[2].submitted_at > reviews[1].submitted_at
    /\ metrics # NoMetrics
    /\ ~metrics.isApproved
    /\ metrics.hasChangesRequested

\* No reviewer's login is the name of an inherited property.
OwnLoginsOnly ==
    \A k \in 1 .. Len(reviews) : reviews[k].user \notin ObjectPrototypeNames

\* C6 holds for the reviews of reviewers whose logins are not names of
\* inherited properties.
C6_LatestReviewPerAuthorOfOwnLogins ==
    OwnLoginsOnly => C6_LatestReviewPerAuthor

\* The only review is an approval by "constructor", and it did not count.
C6_ReachedInheritedLogin ==
    /\ Len(reviews) = 1
    /\ reviews[1].user = "constructor"
    /\ reviews[1].state = "APPROVED"
    /\ metrics # NoMetrics
    /\ ~metrics.isApproved

(***************************************************************************)
(* Claims about getCodeOwnerTeams.                                         *)
(***************************************************************************)
Range(q) == {q[k] : k \in 1 .. Len(q)}

\* Every reordering of a sequence.
Reorderings(q) ==
    {[k \in 1 .. Len(q) |-> q[f[k]]] : f \in Permutations(1 .. Len(q))}

\* The rule's pattern compiles and its matcher accepts the file's name.
RuleMatches(rule, file) ==
    /\ parsePattern(rule.pattern).ok
    /\ test(parsePattern(rule.pattern).re, file.filename)

\* The teams of every rule that matches some changed file.
MatchingTeams(fileList, ruleList) ==
    UNION { Range(ruleList[r].teams) :
              r \in {x \in 1 .. Len(ruleList) :
                       \E f \in 1 .. Len(fileList) :
                           RuleMatches(ruleList[x], fileList[f])} }

\* C9: permuting the rule list or the file list does not change the outcome
\* of ownership resolution: the same set of team names (or the same failure).
C9_OrderIndependent ==
    codeOwnerTeams # NotCalled =>
        \A fileOrder \in Reorderings(changedFiles),
           ruleOrder \in Reorderings(CODEOWNER_RULES) :
            LET other == getCodeOwnerTeams(fileOrder, ruleOrder)
            IN  /\ other.ok = codeOwnerTeams.ok
                /\ Range(other.teams) = Range(codeOwnerTeams.teams)

\* A call returned two teams that another order of its inputs returns in the
\* other order.
C9_Witness ==
    /\ codeOwnerTeams.ok
    /\ Len(codeOwnerTeams.teams) >= 2
    /\ \E fileOrder \in Reorderings(changedFiles),
          ruleOrder \in Reorderings(CODEOWNER_RULES) :
           getCodeOwnerTeams(fileOrder, ruleOrder).teams # codeOwnerTeams.teams

\* C10: the call returns exactly the teams of the rules matching some changed
\* file, each once, and returns the empty set, not an error, when there is no
\* changed file or no rule matches.
C10_ExactUnion ==
    codeOwnerTeams # NotCalled =>
        /\ codeOwnerTeams.ok
        /\ Range(codeOwnerTeams.teams) = MatchingTeams(changedFiles, CODEOWNER_RULES)
        /\ Cardinality(Range(codeOwnerTeams.teams)) = Len(codeOwnerTeams.teams)
        /\ (changedFiles = <<>> \/ MatchingTeams(changedFiles, CODEOWNER_RULES) = {})
               => codeOwnerTeams.teams = <<>>

(***************************************************************************)
(* Claims about getBusinessDays.                                           *)
(***************************************************************************)
dayOf(t) == t \div TicksPerDay
IsWeekend(d) == (d + 4) % 7 \in {0, 6}
WeekdaysInRange(a, b) == {d \in dayOf(a) .. dayOf(b) : ~IsWeekend(d)}

\* C4: getBusinessDays(a, b) = getBusinessDays(b, a) for all instants a, b.
C4_Symmetric ==
    businessDays # NotComputed =>
        businessDays = getBusinessDays(endDate, startDate)

\* C5: for start <= end the result is the number of days of the inclusive
\* range [day(start), day(end)] that are neither Saturday nor Sunday; so it is
\* 1 for one weekday, 2 from a Friday to the next Monday, 0 inside a weekend.
C5_InclusiveWeekdayCount ==
    (businessDays # NotComputed /\ startDate <= endDate) =>
        /\ businessDays = Cardinality(WeekdaysInRange(startDate, endDate))
        /\ (dayOf(startDate) = dayOf(endDate) /\ ~IsWeekend(dayOf(startDate)))
               => businessDays = 1
        /\ (getDay(startDate) = 5 /\ dayOf(endDate) = dayOf(startDate) + 3)
               => businessDays = 2
        /\ (getDay(startDate) = 6 /\ dayOf(endDate) - dayOf(startDate) \in {0, 1})
               => businessDays = 0

\* A Friday-to-Monday call has returned 2.
C5_Witness ==
    /\ businessDays = 2
    /\ getDay(startDate) = 5
    /\ dayOf(endDate) = dayOf(startDate) + 3
    /\ startDate # setHoursMidnight(startDate)

(***************************************************************************)
(* Claims about the classifiers.                                           *)
(***************************************************************************)
PriorityLabelNames == {PRIORITY_LABELS[k] : k \in 1 .. Len(PRIORITY_LABELS)}
CarriesPriorityLabel(p) == \E k \in 1 .. Len(p.labels) : p.labels[k].name \in PriorityLabelNames

\* The lookup compiles every rule for the first changed file, so it raises
\* exactly when there is a changed file and a rule whose pattern is malformed.
LookupRaises(fileList, ruleList) ==
    /\ fileList # <<>>
    /\ \E r \in 1 .. Len(ruleList) : ~parsePattern(ruleList[r].pattern).ok

FastTrackBucket(team) ==
    CASE toLowerCase(team) = foundation -> PR_STATUS.NEEDS_FOUNDATION_REVIEW
      [] toLowerCase(team) = platform -> PR_STATUS.NEEDS_PLATFORM_REVIEW
      [] toLowerCase(team) = consumer -> PR_STATUS.NEEDS_CONSUMER_REVIEW
      [] OTHER -> PR_STATUS.NEEDS_REVIEW

\* The pull request has exactly one owning team and it is a fast-track team.
SingleFastTrackOwner(p) ==
    LET owning == MatchingTeams(p.files, CODEOWNER_RULES)
    IN  /\ Cardinality(owning) = 1
        /\ \A team \in owning : toLowerCase(team) \in {foundation, platform, consumer}

\* C1 as stated: a pull request flagged as a community contribution is put in
\* the Community bucket whenever the organisation-wide classifier returns,
\* whatever its labels, metrics and owning teams.
C1_CommunityFirst ==
    (status.ok /\ pr.isCommunityPR) => status.status = PR_STATUS.COMMUNITY_PRS

\* C1 amended: the team classifier puts every community-flagged pull request
\* in its Community bucket; the organisation-wide classifier tests the
\* priority labels first, so a community-flagged pull request with a priority
\* label is High Priority, and without one it is Community unless the
\* code-owner lookup raises, in which case the classifier raises too.
C1_PriorityLabelThenCommunity ==
    /\ (teamStatus # NotClassified /\ pr.isCommunityPR)
           => teamStatus = Returned(PR_STATUS_TEAM.COMMUNITY_PR)
    /\ (status # NotClassified /\ pr.isCommunityPR)
           => IF CarriesPriorityLabel(pr)
              THEN status = Returned(PR_STATUS.HIGH_PRIORITY)
              ELSE IF LookupRaises(pr.files, CODEOWNER_RULES)
                   THEN ~status.ok
                   ELSE status = Returned(PR_STATUS.COMMUNITY_PRS)

\* C1 witness: both classifiers ran on a community-flagged pull request that
\* carries a priority label and has changed files with a single owner.
C1_Witness ==
    /\ pr.isCommunityPR
    /\ CarriesPriorityLabel(pr)
    /\ SingleFastTrackOwner(pr)
    /\ status = Returned(PR_STATUS.HIGH_PRIORITY)
    /\ teamStatus = Returned(PR_STATUS_TEAM.COMMUNITY_PR)

\* The bucket of the earlier report for a fast-track team.
RequestedBucket(team) ==
    CASE team = TEAMS_REQUESTED.foundation -> PR_STATUS_REQUESTED.NEEDS_FOUNDATION_REVIEW
      [] team = TEAMS_REQUESTED.platform -> PR_STATUS_REQUESTED.NEEDS_PLATFORM_REVIEW
      [] team = TEAMS_REQUESTED.consumer -> PR_STATUS_REQUESTED.NEEDS_CONSUMER_REVIEW
      [] OTHER -> PR_STATUS_REQUESTED.NEEDS_REVIEW

\* The teams asked to review the pull request, as a set.
RequestedTeams(p) ==
    {requestedTeamSlugs(p)[k] : k \in 1 .. Len(requestedTeamSlugs(p))}

\* Exactly one team is asked to review and it is a fast-track team.
SingleFastTrackRequested(p) ==
    /\ Cardinality(RequestedTeams(p)) = 1
    /\ RequestedTeams(p) \subseteq {foundation, platform, consumer}

CarriesRequestedPriorityLabel(p) ==
    \E k \in 1 .. Len(p.labels) :
        listIncludes(PRIORITY_LABELS_REQUESTED, p.labels[k].name)

\* The classifier of the earlier report on a pull request that is not
\* community-flagged, has no priority label and has exactly one team asked
\* to review, a fast-track team: that team's review bucket.
FastTrackFirstRequested ==
    (requestedStatus # NotClassified /\ ~pr.isCommunityPR
        /\ ~CarriesRequestedPriorityLabel(pr) /\ SingleFastTrackRequested(pr))
        => \E team \in RequestedTeams(pr) :
               requestedStatus = Returned(RequestedBucket(team))

\* C2 as stated: a pull request that is not community-flagged, has no
\* priority label and has exactly one owning team, a fast-track team, gets
\* that team's review bucket whatever hasChangesRequested and isApproved
\* are, from the classifier that takes the owners from the ownership rules
\* and from the one that takes them from the teams asked to review.
C2_FastTrackBeforeReviewState ==
    /\ (status.ok /\ ~pr.isCommunityPR /\ ~CarriesPriorityLabel(pr)
           /\ SingleFastTrackOwner(pr))
           => \E team \in MatchingTeams(pr.files, CODEOWNER_RULES) :
                  status.status = FastTrackBucket(team)
    /\ FastTrackFirstRequested

\* C2 amended: the classifier that takes the owners from the teams asked to
\* review gives such a pull request the team's review bucket whatever
\* hasChangesRequested and isApproved are; the classifier that takes the
\* owners from the ownership rules tests the review state before the owners:
\* Changes requested when hasChangesRequested, else Approved when
\* isApproved, and the single owner's review bucket only when both are
\* false; it raises instead when the code-owner lookup raises.
C2_ReviewStateBeforeFastTrack ==
    /\ (status # NotClassified /\ ~pr.isCommunityPR /\ ~CarriesPriorityLabel(pr)
           /\ SingleFastTrackOwner(pr))
           => IF LookupRaises(pr.files, CODEOWNER_RULES) THEN ~status.ok
              ELSE IF pr.hasChangesRequested
                   THEN status = Returned(PR_STATUS.CHANGES_REQUESTED)
              ELSE IF pr.isApproved THEN status = Returned(PR_STATUS.APPROVED)
              ELSE \E team \in MatchingTeams(pr.files, CODEOWNER_RULES) :
                       status = Returned(FastTrackBucket(team))
    /\ FastTrackFirstRequested

\* C2 witness: a pull request with changes requested and an approval, owned
\* by the consumer team alone under the rules and with the consumer team
\* alone asked to review, was classified as Changes requested by the one
\* classifier and as Needs Consumer Review by the other.
C2_Witness ==
    /\ ~pr.isCommunityPR
    /\ ~CarriesPriorityLabel(pr)
    /\ ~CarriesRequestedPriorityLabel(pr)
    /\ MatchingTeams(pr.files, CODEOWNER_RULES) = {Consumer}
    /\ RequestedTeams(pr) = {consumer}
    /\ pr.hasChangesRequested
    /\ pr.isApproved
    /\ status = Returned(PR_STATUS.CHANGES_REQUESTED)
    /\ requestedStatus = Returned(PR_STATUS_REQUESTED.NEEDS_CONSUMER_REVIEW)

\* C3: once called, the organisation-wide classifier has returned one bucket
\* of its enumeration, and so has the team classifier; neither raises.
C3_Total ==
    /\ status # NotClassified
           => /\ status.ok
              /\ status.status \in {PR_STATUS[key] : key \in DOMAIN PR_STATUS}
    /\ teamStatus # NotClassified
           => /\ teamStatus.ok
              /\ teamStatus.status \in {PR_STATUS_TEAM[key] : key \in DOMAIN PR_STATUS_TEAM}

(***************************************************************************)
(* Claims about the batched metrics step of the team report.               *)
(***************************************************************************)
metricsOf(p) ==
    [age |-> p.age, staleness |-> p.staleness, isApproved |-> p.isApproved,
     hasChangesRequested |-> p.hasChangesRequested]

\* The metrics of the pull request computed from what the server holds.
OwnMetrics(p) ==
    calculateMetrics(p.created_at, now, remoteComments(p.number), remoteReviews(p.number))

\* C7: when the batched step is over, the result list has one entry per
\* input pull request, in input order; the entry of the pull request whose
\* comment or review fetch failed carries the zero-valued metrics and every
\* other entry carries the metrics computed from its own comments and reviews.
C7_FailedFetchGetsZeroMetrics ==
    batchPc = "done" =>
        /\ Len(prsWithMetrics) = Len(pullRequests)
        /\ \A k \in 1 .. Len(pullRequests) :
               /\ prsWithMetrics[k].number = pullRequests[k].number
               /\ metricsOf(prsWithMetrics[k]) =
                      IF failedFetch.number = pullRequests[k].number
                      THEN ZeroMetrics
                      ELSE OwnMetrics(pullRequests[k])

\* C7 witness: a run over two batches in which a fetch of the second pull
\* request failed: it has the zero record, which its own metrics are not, and
\* its batch neighbours and the pull request of the second batch have theirs.
C7_Witness ==
    /\ batchPc = "done"
    /\ Len(pullRequests) > METRICS_CONCURRENCY_LIMIT
    /\ failedFetch.number = 2
    /\ metricsOf(prsWithMetrics[2]) = ZeroMetrics
    /\ OwnMetrics(pullRequests[2]) # ZeroMetrics
    /\ \A k \in {1, 3, Len(pullRequests)} :
           /\ metricsOf(prsWithMetrics[k]) = OwnMetrics(pullRequests[k])
           /\ metricsOf(prsWithMetrics[k]) # ZeroMetrics

(***************************************************************************)
(* Claims about the organisation-wide report.                              *)
(***************************************************************************)
AppearsIn(number, report) ==
    \E g \in 1 .. Len(report.groups) :
        \E l \in 1 .. Len(report.groups[g].lines) :
            report.groups[g].lines[l].number = number

\* C8: when main has returned, every organisation pull request other than
\* the one whose fetch failed has a line in the report, and no fetch of
\* another pull request was cancelled.
C8_OthersStayInReport ==
    orgPc = "done" =>
        \A k \in 1 .. Len(orgMemberAndDevinPRs) :
            orgMemberAndDevinPRs[k].number # failedFetch.number
                => AppearsIn(orgMemberAndDevinPRs[k].number, output)

(***************************************************************************)
(* Claims about parsePattern.                                              *)
(***************************************************************************)
\* Three asterisks in a row somewhere in the pattern.
HasThreeAsterisks(pattern) ==
    \E k \in 1 .. (Len(pattern) - 2) :
        pattern[k] = "*" /\ pattern[k + 1] = "*" /\ pattern[k + 2] = "*"

\* The components of a path: what lies between its separators.
Components(path) == split(path, separator)

\* A relative path as the reports meet them: no empty component.
IsRelativePath(path) ==
    \A k \in 1 .. Len(Components(path)) : Components(path)[k] # <<>>

\* A single literal segment: not empty, no separator, no wildcard.
IsLiteralSegment(pattern) ==
    /\ pattern # <<>>
    /\ \A k \in 1 .. Len(pattern) : pattern[k] \notin {"/", "*", "?", "\\"}

\* C11: parsePattern throws exactly for the patterns with three asterisks in
\* a row anywhere in them and for the empty pattern.
C11_ThrowsExactlyOnMalformed ==
    regexp # NotCompiled =>
        (~regexp.ok <=> (patternArg = <<>> \/ HasThreeAsterisks(patternArg)))

\* C11 witness: the compiler threw on a pattern whose three asterisks are
\* not at its start.
C11_Witness ==
    /\ patternArg = <<"d", "*", "*", "*">>
    /\ regexp # NotCompiled
    /\ ~regexp.ok
    /\ regexp.error = "pattern cannot contain three consecutive asterisks"

\* C12: the matcher of a pattern that is a single literal segment, without a
\* leading slash, accepts every relative path whose last component is that
\* segment, at any depth.
C12_SingleSegmentAnyDepth ==
    (testResult.called /\ IsLiteralSegment(patternArg) /\ IsRelativePath(pathArg)
        /\ Last(Components(pathArg)) = patternArg)
        => testResult.value

\* C12 witness: the pattern d was tested on x/x/d and accepted it.
C12_Witness ==
    /\ patternArg = <<"d">>
    /\ pathArg = <<"x", "/", "x", "/", "d">>
    /\ testResult.called
    /\ testResult.value

\* C13: the matcher of /d/ accepts every relative path with a component
\* after the leading component d, and neither d itself nor a path whose
\* first component only starts with d.
C13_TrailingSlashIsDirectory ==
    (testResult.called /\ patternArg = <<"/", "d", "/">> /\ IsRelativePath(pathArg))
        => (testResult.value <=>
                (Len(Components(pathArg)) >= 2 /\ Components(pathArg)[1] = <<"d">>))

\* C13 witness: /d/ was tested on dx/x and refused it.
C13_Witness ==
    /\ patternArg = <<"/", "d", "/">>
    /\ pathArg = <<"d", "x", "/", "x">>
    /\ testResult.called
    /\ ~testResult.value

\* C14: the matcher of **/d accepts every relative path whose last component
\* is d, with no leading component or with any number of them.
C14_LeadingDoubleStar ==
    (testResult.called /\ patternArg = <<"*", "*", "/", "d">> /\ IsRelativePath(pathArg)
        /\ Last(Components(pathArg)) = <<"d">>)
        => testResult.value

\* C14 witness: **/d was tested on d alone and accepted it.
C14_Witness ==
    /\ patternArg = <<"*", "*", "/", "d">>
    /\ pathArg = <<"d">>
    /\ testResult.called
    /\ testResult.value

\* No character of the path is a line terminator.
IsOneLine(path) == \A k \in 1 .. Len(path) : path[k] \notin LineTerminators

\* C12 holds for the paths without a line terminator.
C12_SingleSegmentAnyDepthOnOneLine ==
    IsOneLine(pathArg) => C12_SingleSegmentAnyDepth

\* The pattern d was tested on a path whose last component is d and whose
\* first is a line separator, and refused it.
C12_ReachedLineTerminator ==
    /\ patternArg = <<"d">>
    /\ pathArg = <<"U+2028", "/", "d">>
    /\ testResult.called
    /\ ~testResult.value

\* C13 holds for the paths without a line terminator.
C13_TrailingSlashIsDirectoryOnOneLine ==
    IsOneLine(pathArg) => C13_TrailingSlashIsDirectory

\* /d/ was tested on a file of directory d whose name is a line separator,
\* and refused it.
C13_ReachedLineTerminator ==
    /\ patternArg = <<"/", "d", "/">>
    /\ pathArg = <<"d", "/", "U+2028">>
    /\ testResult.called
    /\ ~testResult.value

\* C14 holds for the paths without a line terminator.
C14_LeadingDoubleStarOnOneLine ==
    IsOneLine(pathArg) => C14_LeadingDoubleStar

\* **/d was tested on d behind a component that is a line separator, and
\* refused it.
C14_ReachedLineTerminator ==
    /\ patternArg = <<"*", "*", "/", "d">>
    /\ pathArg = <<"U+2028", "/", "d">>
    /\ testResult.called
    /\ ~testResult.value

\* C15: the matcher of the pattern / accepts no path, the empty one included.
C15_RootMatchesNothing ==
    (testResult.called /\ patternArg = <<"/">>) => ~testResult.value

(***************************************************************************)
(* Claims about parseCodeowners.                                           *)
(***************************************************************************)
\* The maximal runs of characters of a line that are not white space, as
\* pairs of their first and last index.
Runs(line) ==
    {run \in (1 .. Len(line)) \X (1 .. Len(line)) :
        /\ run[1] <= run[2]
        /\ \A k \in run[1] .. run[2] : line[k] \notin WhiteSpace
        /\ run[1] = 1 \/ line[run[1] - 1] \in WhiteSpace
        /\ run[2] = Len(line) \/ line[run[2] + 1] \in WhiteSpace}

\* The members of a set of indices in ascending order.
Ascending(S) ==
    [k \in 1 .. Cardinality(S) |->
        CHOOSE x \in S : Cardinality({y \in S : y <= x}) = k]

\* The tokens of a line, in the order they are written.
TokensOf(line) ==
    LET runs == Runs(line)
        starts == Ascending({run[1] : run \in runs})
        runFrom(a) == CHOOSE run \in runs : run[1] = a
    IN  [k \in 1 .. Len(starts) |-> SubSeq(line, starts[k], runFrom(starts[k])[2])]

HasTeamPrefix(token) ==
    Len(token) >= Len(TeamPrefix) /\ SubSeq(token, 1, Len(TeamPrefix)) = TeamPrefix

\* The owner tokens among the tokens of a line that carry the team prefix,
\* in the order written.
TeamOwners(tokens) ==
    LET at == Ascending({k \in 2 .. Len(tokens) : HasTeamPrefix(tokens[k])})
    IN  [k \in 1 .. Len(at) |-> tokens[at[k]]]

\* The tokens are those of a line that is neither blank nor a comment, and
\* that has a team among its owners.
YieldsRule(tokens) ==
    /\ tokens # <<>>
    /\ tokens[1][1] # "#"
    /\ TeamOwners(tokens) # <<>>

\* The rule that such a line stands for: its first token, and its team
\* owners without the prefix.
RuleOf(tokens) ==
    LET owners == TeamOwners(tokens)
    IN  [pattern |-> tokens[1],
         teams |-> [k \in 1 .. Len(owners) |->
                       SubSeq(owners[k], Len(TeamPrefix) + 1, Len(owners[k]))]]

LinesOf(text) == split(text, "\n")

\* The rules expected of the token lists of the lines, in their order.
ExpectedRules(tokenLists) ==
    LET yielding == Ascending({k \in 1 .. Len(tokenLists) : YieldsRule(tokenLists[k])})
    IN  [r \in 1 .. Len(yielding) |-> RuleOf(tokenLists[yielding[r]])]

\* C16: the rules returned are, in the order of their lines, the rules of
\* the lines that are neither blank nor comments and name a team: each has
\* the line's first token as pattern and a non-empty list of its team owners
\* with the prefix stripped; every other line gives no rule.
C16_RulesOfTeamLines ==
    parsedRules.called =>
        /\ parsedRules.rules =
               ExpectedRules([k \in 1 .. Len(LinesOf(codeowners)) |->
                                 TokensOf(LinesOf(codeowners)[k])])
        /\ \A r \in 1 .. Len(parsedRules.rules) : parsedRules.rules[r].teams # <<>>

\* C16 witness: a file with a rule line, a line without a team and a line
\* with mixed owners gave the two rules of the first and the third line.
C16_Witness ==
    /\ parsedRules.called
    /\ Len(LinesOf(codeowners)) = 3
    /\ ~YieldsRule(TokensOf(LinesOf(codeowners)[2]))
    /\ LinesOf(codeowners)[2] # <<>>
    /\ parsedRules.rules = << [pattern |-> <<"d">>, teams |-> << <<"a">> >>],
                              [pattern |-> <<"x">>, teams |-> << <<"b">>, <<"a">> >>] >>


(***************************************************************************)
(* Specification of the analysis of one pull request by the organisation   *)
(* report: enhancePRWithMetrics computes its metrics from the fetched      *)
(* comments and reviews and spreads them and the fetched files into it,    *)
(* then groupAndSortPRs classifies it with getPRStatus.                    *)
(***************************************************************************)
FetchedPRs ==
    [number : {1},
     labels : {<<>>, <<Label("bug")>>, <<Label("urgent")>>},
     draft : BOOLEAN,
     isCommunityPR : BOOLEAN,
     isOrgMemberWithTeamReview : {FALSE}]

AnalyseInit ==
    /\ CODEOWNER_RULES \in SampleRuleLists
    /\ pr \in FetchedPRs
    /\ changedFiles \in SamplePRFiles
    /\ codeOwnerTeams = NotCalled
    /\ created_at \in {0, MaxTime, MaxDay * TicksPerDay}
    /\ now = MaxDay * TicksPerDay
    /\ comments \in {<<>>, <<Comment("alice", MaxTime)>>,
                      <<Comment("bob", (MaxDay + 1) * TicksPerDay)>>}
    /\ reviews \in SeqsUpTo(SampleReviews, 1)
    /\ metrics = NoMetrics
    /\ status = NotClassified
    /\ teamStatus = NotClassified
    /\ statusAgain = NotClassified
    /\ requestedStatus = NotClassified
    /\ heap = <<>>
    /\ heapBefore = <<>>
    /\ DaysIdle
    /\ FetchIdle
    /\ BatchIdle
    /\ OrgIdle
    /\ PrintIdle
    /\ PatternIdle
    /\ ParseIdle
    /\ AttentionIdle
    /\ RunIdle

analyseOthers == <<daysVars, fetchVars, batchVars, orgVars, printVars, patternVars,
                   parseVars, attentionVars, runVars>>

\* enhancePRWithMetrics with both fetches answered: { ...pr, ...metrics, files }.
EnhanceWithMetrics ==
    /\ metrics = NoMetrics
    /\ metrics' = calculateMetrics(created_at, now, comments, reviews)
    /\ pr' = spread(spread(pr, metrics'), [files |-> changedFiles])
    /\ UNCHANGED <<created_at, now, comments, reviews, CODEOWNER_RULES, changedFiles,
                   codeOwnerTeams, status, teamStatus, statusAgain, requestedStatus,
                   heap, heapBefore,
                   analyseOthers>>

\* getPRStatus(pr) on the enhanced pull request.
ClassifyEnhanced ==
    /\ metrics # NoMetrics
    /\ status = NotClassified
    /\ status' = getPRStatus(pr)
    /\ UNCHANGED <<pr, teamStatus, statusAgain, requestedStatus, heap, heapBefore,
                   CODEOWNER_RULES, ownersVars, metricsVars,
                   analyseOthers>>

AnalyseNext == EnhanceWithMetrics \/ ClassifyEnhanced

SpecAnalyse == AnalyseInit /\ [][AnalyseNext]_vars

(***************************************************************************)
(* Claims about a pull request without activity.                           *)
(***************************************************************************)
\* The metrics were computed for a pull request with no comment and no review.
NoActivity == metrics # NoMetrics /\ comments = <<>> /\ reviews = <<>>

\* C17: a pull request with no comment and no review has its creation as
\* last activity, so its staleness equals its age, and it is neither approved
\* nor asked for changes; when it is also not community-flagged, carries no
\* priority label and has no single fast-track owner, the classifier puts it
\* in the Needs Review bucket.  The first half holds; the second does not
\* when a rule's pattern is malformed and the pull request has changed
\* files, because the lookup inside the classifier then raises.
C17_QuietPRNeedsReview ==
    NoActivity =>
        /\ lastActivity(created_at, comments, reviews) = created_at
        /\ metrics.staleness = metrics.age
        /\ ~metrics.isApproved
        /\ ~metrics.hasChangesRequested
        /\ (status # NotClassified /\ ~pr.isCommunityPR /\ ~CarriesPriorityLabel(pr)
                /\ ~SingleFastTrackOwner(pr))
               => status = Returned(PR_STATUS.NEEDS_REVIEW)

\* The same when every rule compiles or there is no changed file.
C17_QuietPRNeedsReviewUnlessLookupRaises ==
    (NoActivity /\ ~LookupRaises(changedFiles, CODEOWNER_RULES)) =>
        /\ metrics.staleness = metrics.age
        /\ ~metrics.isApproved
        /\ ~metrics.hasChangesRequested
        /\ (status # NotClassified /\ ~pr.isCommunityPR /\ ~CarriesPriorityLabel(pr)
                /\ ~SingleFastTrackOwner(pr))
               => status = Returned(PR_STATUS.NEEDS_REVIEW)

\* A quiet pull request, created on the second day, was put in Needs Review.
C17_Reached ==
    /\ NoActivity
    /\ created_at = MaxTime
    /\ changedFiles # <<>>
    /\ status = Returned(PR_STATUS.NEEDS_REVIEW)


(***************************************************************************)
(* Claims about the Foundation fast track.                                 *)
(***************************************************************************)
\* The owning teams are one team, named foundation in some letter case.
OnlyFoundation(owning) ==
    /\ Cardinality(owning) = 1
    /\ \A team \in owning : toLowerCase(team) = foundation

\* The owning teams are foundation, in some letter case, and a second team.
FoundationAndAnother(owning) ==
    /\ Cardinality(owning) >= 2
    /\ \E team \in owning : toLowerCase(team) = foundation

\* The pull request has no priority label, is not community-flagged, is not
\* approved and has no changes requested.
PlainPR(p) ==
    /\ ~CarriesPriorityLabel(p)
    /\ ~p.isCommunityPR
    /\ ~p.isApproved
    /\ ~p.hasChangesRequested

\* C18: a plain pull request whose owning teams are exactly foundation, in
\* any letter case, is put in the Foundation review bucket, and one owned by
\* foundation and a second team in Needs Review.  It does not hold when
\* another rule's pattern is malformed: the lookup inside the classifier
\* raises for the first changed file.
C18_FoundationFastTrack ==
    (status # NotClassified /\ PlainPR(pr)) =>
        /\ OnlyFoundation(MatchingTeams(pr.files, CODEOWNER_RULES))
               => status = Returned(PR_STATUS.NEEDS_FOUNDATION_REVIEW)
        /\ FoundationAndAnother(MatchingTeams(pr.files, CODEOWNER_RULES))
               => status = Returned(PR_STATUS.NEEDS_REVIEW)

\* The same when every rule compiles.
C18_FoundationFastTrackUnlessLookupRaises ==
    (status # NotClassified /\ PlainPR(pr)
        /\ ~LookupRaises(pr.files, CODEOWNER_RULES)) =>
        /\ OnlyFoundation(MatchingTeams(pr.files, CODEOWNER_RULES))
               => status = Returned(PR_STATUS.NEEDS_FOUNDATION_REVIEW)
        /\ FoundationAndAnother(MatchingTeams(pr.files, CODEOWNER_RULES))
               => status = Returned(PR_STATUS.NEEDS_REVIEW)

\* A plain pull request owned by Foundation alone took the fast track.
C18_ReachedCapitalised ==
    /\ PlainPR(pr)
    /\ MatchingTeams(pr.files, CODEOWNER_RULES) = {Foundation}
    /\ status = Returned(PR_STATUS.NEEDS_FOUNDATION_REVIEW)

\* A plain pull request owned by FOUNDATION alone took the fast track.
C18_ReachedUpperCase ==
    /\ PlainPR(pr)
    /\ MatchingTeams(pr.files, CODEOWNER_RULES) = {FOUNDATION}
    /\ status = Returned(PR_STATUS.NEEDS_FOUNDATION_REVIEW)

\* A plain pull request owned by foundation and Platform went to Needs Review.
C18_ReachedSecondTeam ==
    /\ PlainPR(pr)
    /\ MatchingTeams(pr.files, CODEOWNER_RULES) = {Platform, foundation}
    /\ status = Returned(PR_STATUS.NEEDS_REVIEW)


(***************************************************************************)
(* The attention report of community pull requests: meetsAttentionCriteria *)
(* and its getPRStatus.  age, staleness, isApproved and hasChangesRequested*)
(* are optional fields of a pull request; a missing one reads as undefined,*)
(* which `|| 0` turns into 0 and a condition takes as false.               *)
(***************************************************************************)
MaxBusinessDays == 10

\* pr[field] || 0
orZero(p, field) == IF field \in DOMAIN p THEN p[field] ELSE 0

\* the truthiness of pr[field] for a boolean field
isSet(p, field) == field \in DOMAIN p /\ p[field]

\* A plausible slip: drafts are held to the rule of the other pull requests.
meetsAttentionCriteriaAnyDraft(p) == orZero(p, "staleness") >= 7

meetsAttentionCriteria(p) ==
    IF isSet(p, "draft")
    THEN LET draftAge == orZero(p, "age")
             staleness == orZero(p, "staleness")
         IN  draftAge >= 7 /\ staleness >= 7
    ELSE orZero(p, "staleness") >= 7

isDraftStuck(p) ==
    IF ~isSet(p, "draft") THEN FALSE
    ELSE LET draftAge == orZero(p, "age")
             staleness == orZero(p, "staleness")
         IN  draftAge >= 7 /\ staleness >= 7

hasChangesRequestedNoFollowUp(p) ==
    IF ~isSet(p, "hasChangesRequested") THEN FALSE
    ELSE orZero(p, "staleness") >= 3

\* A plausible slip: more than 2 days instead of 2 or more.
isApprovedWaitingMergeStrict(p) ==
    IF ~isSet(p, "isApproved") THEN FALSE
    ELSE orZero(p, "staleness") > 2

isApprovedWaitingMerge(p) ==
    IF ~isSet(p, "isApproved") THEN FALSE
    ELSE orZero(p, "staleness") >= 2

\* PR_STATUS of the attention report (labels without their emoji).
PR_STATUS_ATTENTION ==
    [NEEDS_ATTENTION |-> [priority |-> 0, label |-> "Needs Attention"],
     DRAFT_STUCK |-> [priority |-> 1, label |-> "Draft Stuck (1+ week)"],
     CHANGES_REQUESTED_NO_FOLLOWUP |->
         [priority |-> 2, label |-> "Changes Requested - No Follow-up"],
     APPROVED_WAITING_MERGE |->
         [priority |-> 3, label |-> "Approved - Waiting to Merge"]]

\* A plausible slip: the attention criteria are tried before the draft test.
getPRStatusAttentionFirst(p) ==
    IF meetsAttentionCriteria(p) THEN PR_STATUS_ATTENTION.NEEDS_ATTENTION
    ELSE IF isDraftStuck(p) THEN PR_STATUS_ATTENTION.DRAFT_STUCK
    ELSE IF hasChangesRequestedNoFollowUp(p)
         THEN PR_STATUS_ATTENTION.CHANGES_REQUESTED_NO_FOLLOWUP
    ELSE IF isApprovedWaitingMerge(p) THEN PR_STATUS_ATTENTION.APPROVED_WAITING_MERGE
    ELSE PR_STATUS_ATTENTION.NEEDS_ATTENTION

getPRStatusAttention(p) ==
    IF isDraftStuck(p) THEN PR_STATUS_ATTENTION.DRAFT_STUCK
    ELSE IF hasChangesRequestedNoFollowUp(p)
         THEN PR_STATUS_ATTENTION.CHANGES_REQUESTED_NO_FOLLOWUP
    ELSE IF isApprovedWaitingMerge(p) THEN PR_STATUS_ATTENTION.APPROVED_WAITING_MERGE
    ELSE IF meetsAttentionCriteria(p) THEN PR_STATUS_ATTENTION.NEEDS_ATTENTION
    ELSE PR_STATUS_ATTENTION.NEEDS_ATTENTION

(***************************************************************************)
(* Specification of the attention report's two functions: each is called   *)
(* once on a pull request, with its metrics spread in or without them.     *)
(* The functions take any numbers for age and staleness.                   *)
(***************************************************************************)
AttentionLabelLists == {<<>>, <<Label("urgent")>>}
AttentionOwnerLists == {<<>>, <<foundation>>}

PRsWithoutMetrics ==
    [number : {1},
     labels : AttentionLabelLists,
     draft : BOOLEAN,
     codeOwnerTeams : AttentionOwnerLists]

PRsWithMetrics ==
    [number : {1},
     labels : AttentionLabelLists,
     draft : BOOLEAN,
     codeOwnerTeams : AttentionOwnerLists,
     age : 0 .. MaxBusinessDays,
     staleness : 0 .. MaxBusinessDays,
     isApproved : BOOLEAN,
     hasChangesRequested : BOOLEAN]

AttentionInit ==
    /\ pr \in PRsWithoutMetrics \cup PRsWithMetrics
    /\ status = NotClassified
    /\ teamStatus = NotClassified
    /\ statusAgain = NotClassified
    /\ requestedStatus = NotClassified
    /\ heap = <<>>
    /\ heapBefore = <<>>
    /\ meetsAttention = NotTested
    /\ attentionStatus = NotClassified
    /\ CODEOWNER_RULES = <<>>
    /\ DaysIdle
    /\ OwnersIdle
    /\ MetricsIdle
    /\ FetchIdle
    /\ BatchIdle
    /\ OrgIdle
    /\ PrintIdle
    /\ PatternIdle
    /\ ParseIdle
    /\ RunIdle

attentionOthers == <<CODEOWNER_RULES, daysVars, ownersVars, metricsVars, classifyVars,
                     fetchVars, batchVars, orgVars, printVars, patternVars, parseVars,
                     runVars>>

CallMeetsAttentionCriteria ==
    /\ ~meetsAttention.called
    /\ meetsAttention' = [called |-> TRUE, value |-> meetsAttentionCriteria(pr)]
    /\ UNCHANGED <<attentionStatus, attentionOthers>>

CallGetPRStatusAttention ==
    /\ attentionStatus = NotClassified
    /\ attentionStatus' = Returned(getPRStatusAttention(pr))
    /\ UNCHANGED <<meetsAttention, attentionOthers>>

AttentionNext == CallMeetsAttentionCriteria \/ CallGetPRStatusAttention

SpecAttention == AttentionInit /\ [][AttentionNext]_vars

(***************************************************************************)
(* Claims about the attention report.                                      *)
(***************************************************************************)
\* C19: for a pull request that carries its metrics, meetsAttentionCriteria
\* returns true exactly when staleness >= 7 if it is not a draft, and exactly
\* when age >= 7 and staleness >= 7 if it is a draft; isApproved,
\* hasChangesRequested, the labels and the owning teams play no part.
C19_AttentionCriteria ==
    (meetsAttention.called /\ pr \in PRsWithMetrics) =>
        (meetsAttention.value <=>
            IF pr.draft THEN pr.age >= 7 /\ pr.staleness >= 7
            ELSE pr.staleness >= 7)

\* C19 witness: a draft stale for 7 business days but only 6 old, approved,
\* labelled and owned, was tested and does not need attention.
C19_Witness ==
    /\ pr \in PRsWithMetrics
    /\ pr.draft
    /\ pr.age = 6
    /\ pr.staleness = 7
    /\ pr.isApproved
    /\ pr.labels # <<>>
    /\ pr.codeOwnerTeams # <<>>
    /\ meetsAttention = [called |-> TRUE, value |-> FALSE]

\* C20: with isApproved and hasChangesRequested both false, a draft of age
\* 10 and staleness 8 is classified Draft Stuck by the attention report, and
\* a pull request with the same metrics that is not a draft Needs Attention.
C20_DraftStuckElseAttention ==
    (attentionStatus # NotClassified /\ pr \in PRsWithMetrics
        /\ ~pr.isApproved /\ ~pr.hasChangesRequested
        /\ pr.age = 10 /\ pr.staleness = 8) =>
        attentionStatus =
            Returned(IF pr.draft THEN PR_STATUS_ATTENTION.DRAFT_STUCK
                     ELSE PR_STATUS_ATTENTION.NEEDS_ATTENTION)

\* C20 witness: such a draft was classified Draft Stuck.
C20_Witness ==
    /\ pr \in PRsWithMetrics
    /\ pr.draft
    /\ ~pr.isApproved
    /\ ~pr.hasChangesRequested
    /\ pr.age = 10
    /\ pr.staleness = 8
    /\ attentionStatus = Returned(PR_STATUS_ATTENTION.DRAFT_STUCK)


(***************************************************************************)
(* Claims about calling the classifier again.                              *)
(***************************************************************************)
\* The objects that existed before the first call are as they were then.
ArgumentsUntouched ==
    /\ Len(heap) >= Len(heapBefore)
    /\ \A address \in 1 .. Len(heapBefore) : heap[address] = heapBefore[address]

\* C21: classifying the same pull request (with its metrics and files) a
\* second time in one run, under the same rules, gives the outcome of the
\* first call, and no call changes the pull request, its label and file
\* lists, the rule list, a rule or a rule's team list.
C21_SameBucketAgain ==
    /\ statusAgain # NotClassified => statusAgain = status
    /\ ArgumentsUntouched

\* The teams some call has gathered in a Set of its own.
GatheredTeams ==
    {heap[address].value : address \in {a \in 1 .. Len(heap) : heap[a].kind = "Set"}}

\* C21 witness: under two rules naming the foundation team in different
\* case, a pull request with one changed file, owned by the team through the
\* first rule, was classified twice; each call made a Set, gathered the team
\* in it, made the two arrays and returned the Foundation review bucket.
C21_Witness ==
    /\ Len(heapBefore[rulesAddress].value) = 2
    /\ heapBefore[heapBefore[heapBefore[rulesAddress].value[1]].value.teams].value
           = <<Foundation>>
    /\ heapBefore[heapBefore[heapBefore[rulesAddress].value[2]].value.teams].value
           = <<foundation>>
    /\ heapBefore[prAddress].value.files # NoAddress
    /\ Len(heapBefore[heapBefore[prAddress].value.files].value) = 1
    /\ status = Returned(PR_STATUS.NEEDS_FOUNDATION_REVIEW)
    /\ statusAgain = Returned(PR_STATUS.NEEDS_FOUNDATION_REVIEW)
    /\ GatheredTeams = {<<Foundation>>}
    /\ Len(heap) = Len(heapBefore) + 6


(***************************************************************************)
(* The attention report's run: main (community attention script) calls     *)
(* initializeCodeowners, then fetchCommunityPRsForAttention, which looks   *)
(* up the owners of one community pull request after the other, then       *)
(* printCommunityPRs; whatever is thrown on the way is returned as an      *)
(* error string.  failedFetch Failure(0, "codeowners") is the rule-file    *)
(* request answered with an error status, Failure(0, "members") the        *)
(* members request, Failure(0, "search") the search.                       *)
(***************************************************************************)
MaxRunPRs == 18

\* How far the clock moves on while a batch is awaited.
ClockStep == 3 * TicksPerDay

DEVIN_LOGIN == "devin-ai-integration[bot]"

Loaded == [ok |-> TRUE, error |-> ""]
LoadFailed(message) == [ok |-> FALSE, error |-> message]

\* A plausible slip: the response decoded without a look at response.ok.
fetchCodeownersUnchecked == Fulfilled(codeowners)

\* fetchCodeowners: the decoded file, or the error of a response not ok.
fetchCodeowners ==
    IF failedFetch = Failure(0, "codeowners")
    THEN Rejected("Error fetching CODEOWNERS")
    ELSE Fulfilled(codeowners)

\* The pull request with its owners, as pushed inside the try block.
withCodeOwners(p, fileList, teams) ==
    spread(p, [isCommunityPR |-> TRUE, files |-> fileList, codeOwnerTeams |-> teams])

\* One pass of the for loop of fetchCommunityPRsForAttention: the try block
\* with its catch, given the outcome of the files request and of the lookup.
withOwnersOrNone(p, fetchedFiles, owners) ==
    IF fetchedFiles.status = "fulfilled" /\ owners.ok
    THEN withCodeOwners(p, fetchedFiles.value, owners.teams)
    ELSE withCodeOwners(p, <<>>, <<>>)

\* The lookup of the pass, not reached when the files request failed.
lookupAfter(fetchedFiles) ==
    IF fetchedFiles.status = "fulfilled"
    THEN getCodeOwnerTeams(fetchedFiles.value, CODEOWNER_RULES)
    ELSE codeOwnerTeams

\* The author of a pull request of the run: one by a member of the
\* organisation, one by Devin, the others by an outsider.
authorOf(number) ==
    CASE number = 2 -> "alice"
      [] number = 8 -> DEVIN_LOGIN
      [] OTHER -> "carol"

\* The pull requests of the run: those without reviews are the oldest, and
\* some are drafts.
CommunityPR(number) ==
    [number |-> number,
     user |-> [login |-> authorOf(number)],
     created_at |-> IF number % 3 = 2 THEN 0 ELSE createdAtOf(number),
     draft |-> (number % 4 = 0 \/ number % 12 = 11)]

\* Rule files: none, well-formed ones, and one with a malformed pattern.
RuleFiles ==
    { <<>>,
      <<"r", " ">> \o TeamA,
      joinLines(<< <<"r", " ">> \o TeamA, <<"/", "d", "/", " ">> \o TeamB \o <<" ">> \o TeamA >>),
      joinLines(<< <<"r", " ">> \o TeamA, <<"*", "*", "*", " ">> \o TeamB >>) }

RunFailures ==
    {NoFailure, Failure(0, "codeowners"), Failure(0, "members"), Failure(0, "search"),
     Failure(1, "files"), Failure(1, "reviews"), Failure(3, "reviews")}

\* What the search answers: nothing, less than a batch, more than a batch
\* after the pull requests of members and of Devin are skipped.
SearchAnswer(n) == [k \in 1 .. n |-> CommunityPR(k)]

\* fetchOrgMembers: the logins, or the error of a response not ok.
fetchOrgMembers ==
    IF failedFetch = Failure(0, "members")
    THEN Rejected("Error fetching org members")
    ELSE Fulfilled(orgMemberLogins)

\* fetchCommunityPRsBySearch: the pull requests found, or the error of a
\* request that failed.
fetchCommunityPRsBySearch ==
    IF failedFetch = Failure(0, "search")
    THEN Rejected("Error searching pull requests")
    ELSE Fulfilled(communityPRs)

\* The short runs, under every rule file and failure, and a long one.
RunInit ==
    /\ \/ /\ codeowners \in RuleFiles
          /\ failedFetch \in RunFailures
          /\ communityPRs \in {SearchAnswer(0), SearchAnswer(3)}
          /\ orgMemberLogins \in {<<>>, <<"alice", "bob">>}
       \/ /\ codeowners = <<"r", " ">> \o TeamA
          /\ failedFetch = Failure(1, "reviews")
          /\ communityPRs = SearchAnswer(MaxRunPRs)
          /\ orgMemberLogins = <<"alice", "bob">>
    /\ parsedRules = NotParsed
    /\ CODEOWNER_RULES = <<>>
    /\ pullRequests = <<>>
    /\ changedFiles = <<>>
    /\ codeOwnerTeams = NotCalled
    /\ runPc = "load"
    /\ loaded = NotLoaded
    /\ assignments = 0
    /\ nextCommunityPR = 1
    /\ communityPRsWithCodeOwners = <<>>
    /\ batchStart = 0
    /\ batchResults = <<>>
    /\ prsWithMetrics = <<>>
    /\ batchPc = "idle"
    /\ output = NoOutput
    /\ now = MaxDay * TicksPerDay
    /\ created_at = 0
    /\ comments = <<>>
    /\ reviews = <<>>
    /\ metrics = NoMetrics
    /\ DaysIdle
    /\ ClassifyIdle
    /\ OrgIdle
    /\ PatternIdle
    /\ AttentionIdle

\* What no step of the run changes.
runOthers == <<codeowners, parsedRules, failedFetch, communityPRs, orgMemberLogins,
               changedFiles, batchPc, created_at, comments, reviews, metrics,
               daysVars, classifyVars, orgVars, patternVars, attentionVars>>

\* What the steps before printCommunityPRs leave alone.
printState == <<pullRequests, batchStart, batchResults, prsWithMetrics, now>>

\* What the steps of printCommunityPRs leave alone.
fetchState == <<CODEOWNER_RULES, codeOwnerTeams, loaded, assignments, nextCommunityPR,
                communityPRsWithCodeOwners>>

\* initializeCodeowners: the fetch, then the one assignment of the rule cache.
\* A failed fetch rejects the call and main returns the error string.
InitializeCodeowners ==
    /\ runPc = "load"
    /\ IF fetchCodeowners.status = "rejected"
       THEN /\ loaded' = LoadFailed(fetchCodeowners.reason)
            /\ output' = ErrorOutput(fetchCodeowners.reason)
            /\ runPc' = "done"
            /\ UNCHANGED <<CODEOWNER_RULES, assignments>>
       ELSE /\ CODEOWNER_RULES' = parseCodeowners(fetchCodeowners.value)
            /\ assignments' = assignments + 1
            /\ loaded' = Loaded
            /\ runPc' = "members"
            /\ UNCHANGED output
    /\ UNCHANGED <<codeOwnerTeams, nextCommunityPR, communityPRsWithCodeOwners,
                   printState, runOthers>>

\* fetchCommunityPRsForAttention awaits fetchOrgMembers: on an error the
\* outer catch returns the empty list to main.
FetchOrgMembers ==
    /\ runPc = "members"
    /\ runPc' = IF fetchOrgMembers.status = "rejected" THEN "print" ELSE "search"
    /\ UNCHANGED <<output, fetchState, printState, runOthers>>

\* fetchCommunityPRsForAttention awaits the search: on an error the outer
\* catch returns the empty list to main.
FetchCommunityPRsBySearch ==
    /\ runPc = "search"
    /\ runPc' = IF fetchCommunityPRsBySearch.status = "rejected" THEN "print" ELSE "owners"
    /\ UNCHANGED <<output, fetchState, printState, runOthers>>

\* The guard of the for loop: members of the organisation and Devin.
isSkipped(p) ==
    listIncludes(fetchOrgMembers.value, p.user.login) \/ p.user.login = DEVIN_LOGIN

\* One pass of the loop of fetchCommunityPRsForAttention, for the next pull
\* request: skipped, or its files, the lookup of their owners, the push.
ResolveOwners ==
    /\ runPc = "owners"
    /\ nextCommunityPR <= Len(communityPRs)
    /\ nextCommunityPR' = nextCommunityPR + 1
    /\ LET p == communityPRs[nextCommunityPR]
       IN  IF isSkipped(p)
           THEN UNCHANGED <<codeOwnerTeams, communityPRsWithCodeOwners>>
           ELSE /\ codeOwnerTeams' = lookupAfter(fetchPRFiles(p.number))
                /\ communityPRsWithCodeOwners' =
                       Append(communityPRsWithCodeOwners,
                              withOwnersOrNone(p, fetchPRFiles(p.number), codeOwnerTeams'))
    /\ UNCHANGED <<CODEOWNER_RULES, runPc, loaded, assignments, output, printState,
                   runOthers>>

\* The loop is over: fetchCommunityPRsForAttention returns the list.
ReturnCommunityPRs ==
    /\ runPc = "owners"
    /\ nextCommunityPR > Len(communityPRs)
    /\ runPc' = "print"
    /\ UNCHANGED <<output, fetchState, printState, runOthers>>


(***************************************************************************)
(* printCommunityPRs.  The metrics are fetched in batches whose results    *)
(* are pushed in batch order, so prsWithMetrics lists the pull requests in *)
(* input order, each with its metrics or, after a failed fetch, zeros.     *)
(* Each call of calculateMetrics reads the clock when its batch starts,    *)
(* and the clock moves on while a batch is awaited.                        *)
(***************************************************************************)
PR_STATUS_ATTENTION_VALUES ==
    <<PR_STATUS_ATTENTION.NEEDS_ATTENTION, PR_STATUS_ATTENTION.DRAFT_STUCK,
      PR_STATUS_ATTENTION.CHANGES_REQUESTED_NO_FOLLOWUP,
      PR_STATUS_ATTENTION.APPROVED_WAITING_MERGE>>

\* A plausible slip: every analysed pull request passes the filter.
needsAnyAttentionAlways(p) == TRUE

\* The filter of printCommunityPRs.
needsAnyAttention(p) ==
    \/ meetsAttentionCriteria(p)
    \/ isDraftStuck(p)
    \/ hasChangesRequestedNoFollowUp(p)
    \/ isApprovedWaitingMerge(p)

\* The summary at the end of the report.
summaryOf(analysed, needing, shown) ==
    [totalCommunityPRs |-> Len(analysed),
     attentionNeeded |-> Len(needing),
     draftStuckCount |-> Cardinality({k \in 1 .. Len(needing) : isDraftStuck(needing[k])}),
     changesRequestedCount |->
         Cardinality({k \in 1 .. Len(needing) : hasChangesRequestedNoFollowUp(needing[k])}),
     approvedWaitingCount |->
         Cardinality({k \in 1 .. Len(needing) : isApprovedWaitingMerge(needing[k])}),
     generalAttentionCount |->
         Cardinality({k \in 1 .. Len(needing) :
                         /\ meetsAttentionCriteria(needing[k])
                         /\ ~isDraftStuck(needing[k])
                         /\ ~hasChangesRequestedNoFollowUp(needing[k])
                         /\ ~isApprovedWaitingMerge(needing[k])}),
     showingCount |-> Len(shown)]

\* The groups with their lines, empty groups skipped, and the summary.
attentionReport(groupedPRs, summary) ==
    LET shown == SelectSeq(groupedPRs.groups, LAMBDA group : group.prs # <<>>)
    IN  spread(ReportOutput([g \in 1 .. Len(shown) |->
                                [label |-> shown[g].label, total |-> Len(shown[g].prs),
                                 lines |-> formatLines(shown[g].prs)]]),
               [summary |-> summary])

\* From the ten oldest on: group, print, summarise.
printTop10(analysed, needing, top10OldestPRs) ==
    attentionReport(
        groupAndSortPRs(top10OldestPRs, PR_STATUS_ATTENTION_VALUES,
                        [p \in {top10OldestPRs[k] : k \in 1 .. Len(top10OldestPRs)}
                            |-> Returned(getPRStatusAttention(p))]),
        summaryOf(analysed, needing, top10OldestPRs))

\* From the filtered list on: nothing to show, or the ten oldest.
printNeeding(analysed, needing) ==
    IF Len(needing) = 0
    THEN MessageOutput("No community PRs need attention at this time.")
    ELSE printTop10(analysed, needing, slice(sortDescBy(needing, "age"), 0, 10))

\* A callback of batch.map up to its await: calculateMetrics has read the
\* clock and sent its two requests.
PendingSince(time) == [status |-> "pending", now |-> time]

\* calculateMetrics(pr) of a call that read the clock at the given time.
calculateMetricsAt(p, time) ==
    LET fetchedComments == fetchPRComments(p.number)
        fetchedReviews == fetchPRReviews(p.number)
    IN  IF fetchedComments.status = "rejected" THEN fetchedComments
        ELSE IF fetchedReviews.status = "rejected" THEN fetchedReviews
        ELSE Fulfilled(calculateMetrics(p.created_at, time, fetchedComments.value,
                                        fetchedReviews.value))

\* The async callback of batch.map: try calculateMetrics, catch with zeros.
attentionCallback(p, time) ==
    LET computed == calculateMetricsAt(p, time)
    IN  IF computed.status = "fulfilled" THEN Fulfilled(spread(p, computed.value))
        ELSE Fulfilled(spread(p, ZeroMetrics))

\* main calls printCommunityPRs with the returned list: the early return on
\* an empty list, otherwise on to the loop.
EnterPrintCommunityPRs ==
    /\ runPc = "print"
    /\ pullRequests' = communityPRsWithCodeOwners
    /\ IF Len(communityPRsWithCodeOwners) = 0
       THEN /\ output' = MessageOutput("No community PRs need attention at this time.")
            /\ runPc' = "done"
       ELSE /\ runPc' = "loop"
            /\ UNCHANGED output
    /\ UNCHANGED <<batchStart, batchResults, prsWithMetrics, now, fetchState, runOthers>>

\* One pass of the for loop up to the await: the callbacks of the batch
\* start, each reading the clock.
StartAttentionBatch ==
    /\ runPc = "loop"
    /\ batchStart < Len(pullRequests)
    /\ batchResults' =
           [k \in 1 .. Len(slice(pullRequests, batchStart,
                                 batchStart + METRICS_CONCURRENCY_LIMIT)) |-> PendingSince(now)]
    /\ runPc' = "await"
    /\ UNCHANGED <<pullRequests, batchStart, prsWithMetrics, now, output, fetchState,
                   runOthers>>

\* The callback of one pull request of the batch settles.
SettleAttentionMetrics(k) ==
    /\ runPc = "await"
    /\ batchResults[k].status = "pending"
    /\ batchResults' =
           [batchResults EXCEPT ![k] = attentionCallback(pullRequests[batchStart + k],
                                                         batchResults[k].now)]
    /\ UNCHANGED <<pullRequests, batchStart, prsWithMetrics, now, runPc, output,
                   fetchState, runOthers>>

\* Time passes while a batch is awaited.
ClockAdvances ==
    /\ runPc = "await"
    /\ now < MaxDay * TicksPerDay + ClockStep
    /\ now' = now + ClockStep
    /\ UNCHANGED <<pullRequests, batchStart, batchResults, prsWithMetrics, runPc, output,
                   fetchState, runOthers>>

\* Promise.allSettled resolves: the fulfilled results are pushed in order and
\* the loop index advances.
CollectAttentionBatch ==
    /\ runPc = "await"
    /\ \A k \in 1 .. Len(batchResults) : batchResults[k].status # "pending"
    /\ prsWithMetrics' = prsWithMetrics \o fulfilledValues(batchResults, 1)
    /\ batchStart' = batchStart + METRICS_CONCURRENCY_LIMIT
    /\ runPc' = "loop"
    /\ UNCHANGED <<pullRequests, batchResults, now, output, fetchState, runOthers>>

\* The loop is over: the filter, the ten oldest, the groups, the summary,
\* and the return of main.
PrintAttentionReport ==
    /\ runPc = "loop"
    /\ batchStart >= Len(pullRequests)
    /\ output' = printNeeding(prsWithMetrics,
                              SelectSeq(prsWithMetrics, LAMBDA p : needsAnyAttention(p)))
    /\ runPc' = "done"
    /\ UNCHANGED <<pullRequests, batchStart, batchResults, prsWithMetrics, now,
                   fetchState, runOthers>>

RunNext ==
    \/ InitializeCodeowners
    \/ FetchOrgMembers
    \/ FetchCommunityPRsBySearch
    \/ ResolveOwners
    \/ ReturnCommunityPRs
    \/ EnterPrintCommunityPRs
    \/ StartAttentionBatch
    \/ \E k \in 1 .. Len(batchResults) : SettleAttentionMetrics(k)
    \/ ClockAdvances
    \/ CollectAttentionBatch
    \/ PrintAttentionReport

SpecRun == RunInit /\ [][RunNext]_vars


(***************************************************************************)
(* Claims about the run of the attention report.                           *)
(***************************************************************************)
\* The fetched rule file has a team rule whose pattern has three asterisks
\* in a row.
HasMalformedRule(text) ==
    \E k \in 1 .. Len(parseCodeowners(text)) :
        HasThreeAsterisks(parseCodeowners(text)[k].pattern)

\* C22: when the rule file holds a line whose pattern has three asterisks in
\* a row, initializeCodeowners raises the pattern error, and no lookup of
\* owners raises it later.  Neither holds: the load keeps the pattern as
\* text and returns, and the first lookup over a changed file raises.
C22_PatternErrorAtLoad ==
    /\ (loaded # NotLoaded /\ fetchCodeowners.status = "fulfilled"
           /\ HasMalformedRule(codeowners))
           => ~loaded.ok
    /\ codeOwnerTeams = NotCalled \/ codeOwnerTeams.ok

\* The load returned normally on a file with a malformed rule and a lookup
\* made afterwards raised the pattern error.
C22_Reached ==
    /\ loaded = Loaded
    /\ HasMalformedRule(codeowners)
    /\ ~codeOwnerTeams.ok
    /\ codeOwnerTeams.error = "pattern cannot contain three consecutive asterisks"


(***************************************************************************)
(* Claims about the windows of the batched metrics step.                   *)
(***************************************************************************)
\* The callbacks of the current batch that have not settled.
InFlight == {k \in 1 .. Len(batchResults) : batchResults[k] = Pending}

\* ceil(n / METRICS_CONCURRENCY_LIMIT)
BatchesFor(n) == (n + METRICS_CONCURRENCY_LIMIT - 1) \div METRICS_CONCURRENCY_LIMIT

\* C23: in the batched metrics step at most METRICS_CONCURRENCY_LIMIT (15)
\* callbacks are in flight at any moment; a batch starts only when every
\* callback of the batch before has settled and its results are appended;
\* the step is over after ceil(N / 15) batches for N pull requests; and the
\* results are appended in input order.
C23_BoundedWindows ==
    /\ [](/\ Cardinality(InFlight) <= METRICS_CONCURRENCY_LIMIT
          /\ Len(prsWithMetrics) <= Len(pullRequests)
          /\ \A k \in 1 .. Len(prsWithMetrics) :
                 prsWithMetrics[k].number = pullRequests[k].number
          /\ (batchPc = "done" /\ Len(pullRequests) > 0)
                 => batchStart = METRICS_CONCURRENCY_LIMIT * BatchesFor(Len(pullRequests)))
    /\ [][(batchPc = "loop" /\ batchPc' = "await")
             => /\ InFlight = {}
                /\ Len(prsWithMetrics) = batchStart
                /\ batchStart' = batchStart
                /\ Len(batchResults') <= METRICS_CONCURRENCY_LIMIT]_vars

\* C23 witness: the second batch is in flight, with the results of the full
\* first batch appended.
C23_Witness ==
    /\ batchPc = "await"
    /\ batchStart = METRICS_CONCURRENCY_LIMIT
    /\ InFlight # {}
    /\ Len(prsWithMetrics) = METRICS_CONCURRENCY_LIMIT
    /\ Len(pullRequests) > METRICS_CONCURRENCY_LIMIT


(***************************************************************************)
(* Claims about the order of the attention classifier's chain.             *)
(***************************************************************************)
\* C24: the attention classifier returns the first of Draft Stuck (a draft
\* with age >= 7 and staleness >= 7), Changes Requested - No Follow-up
\* (hasChangesRequested and staleness >= 3), Approved - Waiting to Merge
\* (isApproved and staleness >= 2) whose condition the pull request meets,
\* and Needs Attention when it meets none.
C24_FirstMatchWins ==
    (attentionStatus # NotClassified /\ pr \in PRsWithMetrics) =>
        attentionStatus =
            Returned(
                IF pr.draft /\ pr.age >= 7 /\ pr.staleness >= 7
                THEN PR_STATUS_ATTENTION.DRAFT_STUCK
                ELSE IF pr.hasChangesRequested /\ pr.staleness >= 3
                THEN PR_STATUS_ATTENTION.CHANGES_REQUESTED_NO_FOLLOWUP
                ELSE IF pr.isApproved /\ pr.staleness >= 2
                THEN PR_STATUS_ATTENTION.APPROVED_WAITING_MERGE
                ELSE PR_STATUS_ATTENTION.NEEDS_ATTENTION)

\* C24 witness: a pull request with changes requested and an approval, not
\* a stuck draft, stale for 3 days, was classified by the earlier of the two.
C24_Witness ==
    /\ pr \in PRsWithMetrics
    /\ pr.draft
    /\ pr.age = 6
    /\ pr.staleness = 3
    /\ pr.hasChangesRequested
    /\ pr.isApproved
    /\ attentionStatus = Returned(PR_STATUS_ATTENTION.CHANGES_REQUESTED_NO_FOLLOWUP)


(***************************************************************************)
(* Claims about the review state in the classifiers.                       *)
(***************************************************************************)
\* What the claim gives for the review flags of a pull request.
ByReviewState(p, changesRequested, approved, returned) ==
    /\ (p.hasChangesRequested /\ p.isApproved) => returned = Returned(changesRequested)
    /\ (~p.hasChangesRequested /\ p.isApproved) => returned = Returned(approved)

\* C25: a pull request that no earlier rule takes (not community-flagged,
\* and for the organisation-wide classifier without a priority label and
\* without a single fast-track owner) is classified Changes requested when
\* hasChangesRequested and isApproved are both true, and Approved when only
\* isApproved is, by the organisation-wide and the team classifier alike.
\* It holds for the team classifier; the organisation-wide one raises when
\* a rule's pattern is malformed and the pull request has changed files.
C25_ChangesRequestedBeforeApproved ==
    /\ (teamStatus # NotClassified /\ ~pr.isCommunityPR)
           => ByReviewState(pr, PR_STATUS_TEAM.CHANGES_REQUESTED,
                            PR_STATUS_TEAM.APPROVED, teamStatus)
    /\ (status # NotClassified /\ ~pr.isCommunityPR /\ ~CarriesPriorityLabel(pr)
           /\ ~SingleFastTrackOwner(pr))
           => ByReviewState(pr, PR_STATUS.CHANGES_REQUESTED, PR_STATUS.APPROVED, status)

\* The same when every rule compiles, single fast-track owners included.
C25_ChangesRequestedBeforeApprovedUnlessLookupRaises ==
    /\ (teamStatus # NotClassified /\ ~pr.isCommunityPR)
           => ByReviewState(pr, PR_STATUS_TEAM.CHANGES_REQUESTED,
                            PR_STATUS_TEAM.APPROVED, teamStatus)
    /\ (status # NotClassified /\ ~pr.isCommunityPR /\ ~CarriesPriorityLabel(pr)
           /\ ~LookupRaises(pr.files, CODEOWNER_RULES))
           => ByReviewState(pr, PR_STATUS.CHANGES_REQUESTED, PR_STATUS.APPROVED, status)

\* Both classifiers ran on a pull request with both flags and returned their
\* Changes requested buckets.
C25_Reached ==
    /\ pr.hasChangesRequested
    /\ pr.isApproved
    /\ status = Returned(PR_STATUS.CHANGES_REQUESTED)
    /\ teamStatus = Returned(PR_STATUS_TEAM.CHANGES_REQUESTED)


(***************************************************************************)
(* Claims about groupAndSortPRs.                                           *)
(***************************************************************************)
\* The groups groupAndSortPRs makes of the team report's analysed list.
TeamGroups ==
    groupAndSortPRs(prsWithMetrics, PR_STATUS_TEAM_VALUES,
                    [p \in {prsWithMetrics[k] : k \in 1 .. Len(prsWithMetrics)}
                        |-> getPRStatusTeam(p)]).groups

\* Where the pull request of the given number stands in the groups.
PlacesOf(number, groups) ==
    {place \in (1 .. Len(groups)) \X (1 .. MaxPRs + 1) :
        /\ place[2] <= Len(groups[place[1]].prs)
        /\ groups[place[1]].prs[place[2]].number = number}

RECURSIVE SizesFrom(_, _)
SizesFrom(groups, g) ==
    IF g > Len(groups) THEN 0 ELSE Len(groups[g].prs) + SizesFrom(groups, g + 1)

\* The statuses of a map come in ascending priority, no two with the same.
AscendingPriorities(statusSeq) ==
    \A i, j \in 1 .. Len(statusSeq) :
        i < j => statusSeq[i].priority < statusSeq[j].priority

\* What the claim says of the groups made of a list.
GroupedRight(prs, groups) ==
    /\ \A k \in 1 .. Len(prs) :
           /\ Cardinality(PlacesOf(prs[k].number, groups)) = 1
           /\ \A place \in PlacesOf(prs[k].number, groups) :
                  /\ groups[place[1]].prs[place[2]] = prs[k]
                  /\ groups[place[1]].label = getPRStatusTeam(prs[k]).status.label
    /\ SizesFrom(groups, 1) = Len(prs)
    /\ \A g \in 1 .. Len(groups) :
           \A i, j \in 1 .. Len(groups[g].prs) :
               i < j => groups[g].prs[i].staleness >= groups[g].prs[j].staleness

\* C26: groupAndSortPRs puts every pull request of its input into exactly
\* one group, the one of the bucket its classifier returns; the sizes of the
\* groups add up to the length of the input; the groups come in ascending
\* priority of their buckets; the priorities of a bucket map are pairwise
\* distinct; and inside a group staleness never increases.
C26_GroupsPartitionInOrder ==
    /\ AscendingPriorities(PR_STATUS_VALUES)
    /\ AscendingPriorities(PR_STATUS_TEAM_VALUES)
    /\ AscendingPriorities(PR_STATUS_ATTENTION_VALUES)
    /\ batchPc = "done" =>
           /\ Len(TeamGroups) = Len(PR_STATUS_TEAM_VALUES)
           /\ \A g \in 1 .. Len(TeamGroups) :
                  TeamGroups[g].label = PR_STATUS_TEAM_VALUES[g].label
           /\ GroupedRight(prsWithMetrics, TeamGroups)

\* C26 witness: the full list was grouped; the community group holds pull
\* request 10, the stalest, before pull request 2, which precedes it in the
\* input.
C26_Witness ==
    /\ batchPc = "done"
    /\ Len(prsWithMetrics) = MaxPRs
    /\ failedFetch = NoFailure
    /\ \E g \in 1 .. Len(TeamGroups) :
           /\ TeamGroups[g].label = PR_STATUS_TEAM.COMMUNITY_PR.label
           /\ TeamGroups[g].prs[1].number = 10
           /\ \E i \in 2 .. Len(TeamGroups[g].prs) : TeamGroups[g].prs[i].number = 2


(***************************************************************************)
(* Claims about staleness and age.                                         *)
(***************************************************************************)
\* C27: for a pull request created not after now, whatever the dates of its
\* comments and reviews, the last activity is the latest of the creation
\* date, every comment's date and every review's date, so it is not before
\* the creation, and staleness <= age.
C27_StalenessAtMostAge ==
    (metrics # NoMetrics /\ created_at <= now) =>
        /\ lastActivity(created_at, comments, reviews) >= created_at
        /\ \A k \in 1 .. Len(comments) :
               lastActivity(created_at, comments, reviews) >= comments[k].created_at
        /\ \A k \in 1 .. Len(reviews) :
               lastActivity(created_at, comments, reviews) >= reviews[k].submitted_at
        /\ lastActivity(created_at, comments, reviews)
               \in activityDates(created_at, comments, reviews)
        /\ metrics.staleness <= metrics.age

\* C27 witness: the metrics of a pull request whose one review is dated a
\* day after its creation: its staleness is positive and below its age.
C27_Witness ==
    /\ metrics # NoMetrics
    /\ created_at = 0
    /\ Len(reviews) = 1
    /\ reviews[1].submitted_at = MaxTime
    /\ comments = <<>>
    /\ metrics.staleness < metrics.age
    /\ metrics.staleness > 0


(***************************************************************************)
(* Claims about the rule cache in a run.                                   *)
(***************************************************************************)
\* C28: in a run of the attention report CODEOWNER_RULES is assigned, by
\* initializeCodeowners, before the first lookup of owners reads it, and at
\* most once; when the request for the rule file fails the run is over with
\* the error as its result, and no owners were looked up and no pull request
\* was analysed or classified.
C28_CacheSetOnceBeforeLookups ==
    /\ [](/\ assignments <= 1
          /\ (codeOwnerTeams # NotCalled \/ communityPRsWithCodeOwners # <<>>)
                 => (assignments = 1 /\ loaded = Loaded)
          /\ (loaded # NotLoaded /\ failedFetch = Failure(0, "codeowners"))
                 => /\ runPc = "done"
                    /\ output = ErrorOutput("Error fetching CODEOWNERS")
                    /\ assignments = 0
                    /\ codeOwnerTeams = NotCalled
                    /\ communityPRsWithCodeOwners = <<>>
                    /\ prsWithMetrics = <<>>)
    /\ [][/\ CODEOWNER_RULES' # CODEOWNER_RULES => (runPc = "load" /\ assignments = 0)
          /\ assignments' # assignments => runPc = "load"
          /\ codeOwnerTeams' # codeOwnerTeams => CODEOWNER_RULES' = CODEOWNER_RULES]_vars

\* C28 witness: the rules were assigned once and a lookup made afterwards
\* returned the owners of a pull request.
C28_Witness ==
    /\ assignments = 1
    /\ CODEOWNER_RULES # <<>>
    /\ codeOwnerTeams.ok
    /\ codeOwnerTeams.teams # <<>>
    /\ runPc = "done"
    /\ output.ok

\* A run whose rule-file request failed ended with the error, pull requests
\* waiting or not.
C28_ReachedFailedFetch ==
    /\ failedFetch = Failure(0, "codeowners")
    /\ Len(communityPRs) > 0
    /\ runPc = "done"
    /\ output = ErrorOutput("Error fetching CODEOWNERS")


(***************************************************************************)
(* Claims about reviews submitted at the same time.                        *)
(***************************************************************************)
\* The places in the list of the reviews of one author.
PlacesOfAuthor(reviewList, login) ==
    {k \in 1 .. Len(reviewList) : reviewList[k].user = login}

\* The first place, among an author's reviews, of a most recent one.
FirstMostRecent(reviewList, login) ==
    CHOOSE k \in PlacesOfAuthor(reviewList, login) :
        /\ \A j \in PlacesOfAuthor(reviewList, login) :
               reviewList[j].submitted_at <= reviewList[k].submitted_at
        /\ \A j \in PlacesOfAuthor(reviewList, login) :
               reviewList[j].submitted_at = reviewList[k].submitted_at => k <= j

\* No author has two reviews submitted at the same time.
DistinctTimes(reviewList) ==
    \A j, k \in 1 .. Len(reviewList) :
        (/\ j # k
         /\ reviewList[j].user = reviewList[k].user)
            => reviewList[j].submitted_at # reviewList[k].submitted_at

Flags(m) == <<m.isApproved, m.hasChangesRequested>>

\* C29: the review kept for an author is the first in the list of the
\* author's most recent ones, so of two reviews submitted at the same time
\* the earlier entry is kept; and when no author has two reviews with the
\* same time, isApproved and hasChangesRequested are the same for every
\* reordering of the list.
C29_TiesKeepFirst ==
    metrics # NoMetrics =>
        /\ \A login \in DOMAIN latestReviewsByUser(reviews) :
               latestReviewsByUser(reviews)[login]
                   = reviews[FirstMostRecent(reviews, login)]
        /\ DOMAIN latestReviewsByUser(reviews)
               = {reviews[k].user : k \in 1 .. Len(reviews)}
        /\ DistinctTimes(reviews) =>
               \A reordered \in Reorderings(reviews) :
                   Flags(calculateMetrics(created_at, now, comments, reordered))
                       = Flags(metrics)

\* C29 holds for the reviews of reviewers whose logins are not names of
\* inherited properties.
C29_TiesKeepFirstOfOwnLogins ==
    OwnLoginsOnly => C29_TiesKeepFirst

\* "constructor" approved and requested changes at the same time, and
\* neither review was kept.
C29_ReachedInheritedLogin ==
    /\ metrics # NoMetrics
    /\ Len(reviews) = 2
    /\ reviews[1].user = "constructor"
    /\ reviews[2].user = "constructor"
    /\ reviews[1].submitted_at = reviews[2].submitted_at
    /\ reviews[1].state = "APPROVED"
    /\ reviews[2].state = "CHANGES_REQUESTED"
    /\ latestReviewsByUser(reviews) = <<>>
    /\ ~metrics.isApproved

\* One author approved and requested changes at the same time;
\* the approval comes first and is the one kept, and the list read the other
\* way round gives the other flags.
C29_Witness ==
    /\ metrics # NoMetrics
    /\ Len(reviews) = 2
    /\ reviews[1].user = reviews[2].user
    /\ reviews[1].submitted_at = reviews[2].submitted_at
    /\ reviews[1].state = "APPROVED"
    /\ reviews[2].state = "CHANGES_REQUESTED"
    /\ metrics.isApproved
    /\ ~metrics.hasChangesRequested
    /\ \E reordered \in Reorderings(reviews) :
           Flags(calculateMetrics(created_at, now, comments, reordered))
               # Flags(metrics)


(***************************************************************************)
(* Claims about what the attention report prints.                          *)
(***************************************************************************)
\* The numbers on the printed lines.
Printed ==
    UNION {{output.groups[g].lines[k].number : k \in 1 .. Len(output.groups[g].lines)}
              : g \in 1 .. Len(output.groups)}

\* How many lines were printed.
RECURSIVE PrintedLines(_)
PrintedLines(g) ==
    IF g > Len(output.groups) THEN 0
    ELSE Len(output.groups[g].lines) + PrintedLines(g + 1)

\* The analysed pull requests with a printed line, and those without.
PrintedPRs == {prsWithMetrics[k] : k \in {j \in 1 .. Len(prsWithMetrics) :
                                             prsWithMetrics[j].number \in Printed}}
LeftOutPRs == {prsWithMetrics[k] : k \in {j \in 1 .. Len(prsWithMetrics) :
                                             prsWithMetrics[j].number \notin Printed}}

\* One of the four predicates holds.
SomeAttentionPredicate(p) ==
    \/ meetsAttentionCriteria(p)
    \/ isDraftStuck(p)
    \/ hasChangesRequestedNoFollowUp(p)
    \/ isApprovedWaitingMerge(p)

\* The pull requests whose metrics could not be fetched.
WithoutMetrics ==
    {communityPRsWithCodeOwners[k].number :
        k \in {j \in 1 .. Len(communityPRsWithCodeOwners) :
                  calculateMetricsOf(communityPRsWithCodeOwners[j]).status = "rejected"}}

\* What C30 and its amended form share: every pull request with a line
\* satisfies one of the four predicates, and one under the label of the
\* fallback satisfies the attention criteria, so the fallback was not taken;
\* a pull request given zero metrics after a failed fetch has no line; at
\* most 10 lines are printed.
PrintedByPredicate ==
    /\ \A p \in PrintedPRs : SomeAttentionPredicate(p)
    /\ \A g \in 1 .. Len(output.groups) :
           output.groups[g].label = PR_STATUS_ATTENTION.NEEDS_ATTENTION.label
               => \A k \in 1 .. Len(output.groups[g].lines) :
                      \E p \in PrintedPRs :
                          /\ p.number = output.groups[g].lines[k].number
                          /\ meetsAttentionCriteria(p)
    /\ Printed \cap WithoutMetrics = {}
    /\ PrintedLines(1) <= 10
    /\ Cardinality(Printed) = PrintedLines(1)

\* C30 as stated: once the attention report has printed, the above holds
\* and no analysed pull request without a line is older than one with a
\* line.
C30_PrintedNeedAttention ==
    (runPc = "done" /\ output.ok) =>
        /\ PrintedByPredicate
        /\ \A left \in LeftOutPRs : \A p \in PrintedPRs : left.age <= p.age

\* C30 amended: once the attention report has printed, the above holds and
\* no pull request that satisfies one of the four predicates and has no
\* line is older than one with a line; a pull request that satisfies none
\* of them has no line however old it is.
C30_OldestNeedingAttentionPrinted ==
    (runPc = "done" /\ output.ok) =>
        /\ PrintedByPredicate
        /\ \A left \in LeftOutPRs :
               SomeAttentionPredicate(left)
                   => \A p \in PrintedPRs : left.age <= p.age

\* A pull request that satisfies none of the predicates was left out
\* although it is older than a printed one.
C30_ReachedOlderLeftOut ==
    /\ runPc = "done"
    /\ output.ok
    /\ \E left \in LeftOutPRs :
           /\ ~SomeAttentionPredicate(left)
           /\ \E p \in PrintedPRs : left.age > p.age

\* C30 witness: a report of 10 lines under all four labels, with pull
\* requests left out by the limit, others left out by the filter although as
\* old as the oldest printed, and one left out with zero metrics that would
\* have had a line with its reviews; the pull requests of a member and of
\* Devin were skipped, and the clock moved on between the two batches.
C30_Witness ==
    /\ runPc = "done"
    /\ output.ok
    /\ Len(output.groups) = 4
    /\ PrintedLines(1) = 10
    /\ \E left \in LeftOutPRs : SomeAttentionPredicate(left)
    /\ \E left \in LeftOutPRs :
           /\ ~SomeAttentionPredicate(left)
           /\ \A p \in PrintedPRs : p.age <= left.age
    /\ failedFetch = Failure(1, "reviews")
    /\ WithoutMetrics = {1}
    /\ \E left \in LeftOutPRs : left.number = 1 /\ left.age = 0
    /\ Len(communityPRs) = Len(prsWithMetrics) + 2
    /\ \E p, q \in PrintedPRs \cup LeftOutPRs :
           p.created_at = q.created_at /\ p.age > q.age /\ q.age > 0

====
